---- MODULE Spec2Model ----
(***************************************************************************)
(* GeminiStoryGenerator (src/unnamed/part_000): the retry / timeout loop   *)
(* of generateStory and the scene parser with its fallback ladder.         *)
(*                                                                         *)
(* Text is a sequence of lexemes.  Each lexeme is a literal piece of text  *)
(* that none of the parser's splitting operations (the scene-marker regex, *)
(* the newline split, the sentence split, trim) can cut in two, so these   *)
(* operations are computed exactly on the lexeme sequence.                 *)
(***************************************************************************)
EXTENDS Integers, Sequences, FiniteSets, TLC

(***************************************************************************)
(* Lexemes.                                                                *)
(***************************************************************************)
MARK  == "SCENE 1:"     \* matched by /SCENE\s+\d+:/gi and by /^SCENE\s+\d+/i
MARK3 == "SCENE 3:"     \* the marker with other digits: the regexes read \d+
LMARK == "Scene 2"      \* no colon: matched by /^Scene\s+\d+/i only
NL    == "\n"
SP    == " "
DOT   == "."
W1    == "Luna found a book in the ancient library"
W2    == "a scared fox was hiding near the old tree"

Lexemes == {MARK, LMARK, NL, SP, DOT, W1, W2}

\* the lexemes matched by /SCENE\s+\d+:/gi
ColonMarkers == {MARK, MARK3}

UNDEFINED == <<"<undefined>">>   \* a property that the object does not have

JsNull == <<"<null>">>

(***************************************************************************)
(* JavaScript string primitives on lexeme sequences.                       *)
(***************************************************************************)
IsSpace(t) == t \in {SP, NL}

RECURSIVE StrLen(_)
StrLen(s) == IF s = <<>> THEN 0 ELSE Len(Head(s)) + StrLen(Tail(s))

RECURSIVE TrimStart(_)
TrimStart(s) ==
    IF s # <<>> /\ IsSpace(Head(s)) THEN TrimStart(Tail(s)) ELSE s

RECURSIVE TrimEnd(_)
TrimEnd(s) ==
    IF s # <<>> /\ IsSpace(s[Len(s)]) THEN TrimEnd(SubSeq(s, 1, Len(s) - 1)) ELSE s

Trim(s) == TrimEnd(TrimStart(s))

\* s.split(sep) for a separator that is one lexeme: always at least one piece
RECURSIVE SplitOn(_, _)
SplitOn(s, sep) ==
    IF \A i \in 1..Len(s) : s[i] # sep
    THEN <<s>>
    ELSE LET i == CHOOSE j \in 1..Len(s) :
                      s[j] = sep /\ \A k \in 1..(j - 1) : s[k] # sep
         IN  <<SubSeq(s, 1, i - 1)>> \o SplitOn(SubSeq(s, i + 1, Len(s)), sep)

\* storyText.split(/SCENE\s+\d+:/gi): the markers are dropped, digits included
RECURSIVE SplitOnMarkers(_)
SplitOnMarkers(s) ==
    IF \A i \in 1..Len(s) : s[i] \notin ColonMarkers
    THEN <<s>>
    ELSE LET i == CHOOSE j \in 1..Len(s) :
                      s[j] \in ColonMarkers /\ \A k \in 1..(j - 1) : s[k] \notin ColonMarkers
         IN  <<SubSeq(s, 1, i - 1)>> \o SplitOnMarkers(SubSeq(s, i + 1, Len(s)))

\* pieces.join(sep) for a separator given as a lexeme sequence
RECURSIVE JoinWith(_, _)
JoinWith(pieces, sep) ==
    IF pieces = <<>> THEN <<>>
    ELSE IF Len(pieces) = 1 THEN pieces[1]
    ELSE pieces[1] \o sep \o JoinWith(Tail(pieces), sep)

\* s.substring(0, n): a lexeme cut in two is kept as a lexeme naming the cut
RECURSIVE Substring(_, _)
Substring(s, n) ==
    IF s = <<>> \/ n <= 0 THEN <<>>
    ELSE IF Len(Head(s)) <= n
         THEN <<Head(s)>> \o Substring(Tail(s), n - Len(Head(s)))
         ELSE <<Head(s) \o "[0:" \o ToString(n) \o "]">>

RECURSIVE SelectSeqNonBlank(_)
SelectSeqNonBlank(pieces) ==
    IF pieces = <<>> THEN <<>>
    ELSE IF Len(Trim(Head(pieces))) > 0
         THEN <<Head(pieces)>> \o SelectSeqNonBlank(Tail(pieces))
         ELSE SelectSeqNonBlank(Tail(pieces))

\* the characters of JavaScript strings that are handled character by character
UpperCase == <<"A", "B", "C", "D", "E", "F", "G", "H", "I", "J", "K", "L", "M", "N", "O", "P", "Q", "R", "S", "T", "U", "V", "W", "X", "Y", "Z">>
LowerCase == <<"a", "b", "c", "d", "e", "f", "g", "h", "i", "j", "k", "l", "m", "n", "o", "p", "q", "r", "s", "t", "u", "v", "w", "x", "y", "z">>

ToLowerChar(c) ==
    IF \E i \in 1..Len(UpperCase) : UpperCase[i] = c
    THEN LowerCase[CHOOSE i \in 1..Len(UpperCase) : UpperCase[i] = c]
    ELSE c

\* message.toLowerCase()
ToLowerCase(s) == [i \in 1..Len(s) |-> ToLowerChar(s[i])]

\* s.includes(sub) on character sequences
IncludesChars(s, sub) ==
    \E i \in 0..(Len(s) - Len(sub)) : SubSeq(s, i + 1, i + Len(sub)) = sub

ToUpperChar(c) ==
    IF \E i \in 1..Len(LowerCase) : LowerCase[i] = c
    THEN UpperCase[CHOOSE i \in 1..Len(LowerCase) : LowerCase[i] = c]
    ELSE c

\* tone.toUpperCase()
ToUpperCase(s) == [i \in 1..Len(s) |-> ToUpperChar(s[i])]

(***************************************************************************)
(* Character profiles (characterDNA).                                      *)
(***************************************************************************)
Characters ==
    { [name |-> "Luna", traitsKind |-> "array",  traits |-> <<"brave", "kind", "wise">>],
      [name |-> "Luna", traitsKind |-> "absent", traits |-> <<>>] }


(***************************************************************************)
(* TextClassifier and generateStoryboardPrompt.                            *)
(***************************************************************************)
SettingRules ==
    << [keys |-> {"library", "book"},     label |-> "ancient library with books and shelves"],
       [keys |-> {"forest", "tree"},      label |-> "mystical forest"],
       [keys |-> {"cave", "underground"}, label |-> "mysterious cave"],
       [keys |-> {"castle", "tower"},     label |-> "medieval castle"],
       [keys |-> {"city", "street"},      label |-> "bustling city street"],
       [keys |-> {"mountain", "peak"},    label |-> "mountain landscape"],
       [keys |-> {"ocean", "sea"},        label |-> "coastal scene with ocean"] >>

ActionRules ==
    << [keys |-> {"running", "chase"},      label |-> "running or chasing"],
       [keys |-> {"fighting", "battle"},    label |-> "in combat stance"],
       [keys |-> {"searching", "looking"},  label |-> "searching and investigating"],
       [keys |-> {"climbing", "ascending"}, label |-> "climbing"],
       [keys |-> {"flying", "soaring"},     label |-> "flying through the air"],
       [keys |-> {"discovering", "found"},  label |-> "making a discovery"],
       [keys |-> {"hiding", "sneaking"},    label |-> "hiding or sneaking"] >>

MoodRules ==
    << [keys |-> {"scared", "afraid", "terrified"},   label |-> "scared or worried"],
       [keys |-> {"happy", "excited", "joy"},         label |-> "happy and excited"],
       [keys |-> {"angry", "furious", "mad"},         label |-> "angry or determined"],
       [keys |-> {"surprised", "shocked", "amazed"},  label |-> "surprised and amazed"],
       [keys |-> {"sad", "crying", "upset"},          label |-> "sad or emotional"],
       [keys |-> {"curious", "wonder", "investigate"}, label |-> "curious and focused"] >>

\* every keyword of the three passes
Keywords == UNION {SettingRules[i].keys : i \in 1..Len(SettingRules)}
            \cup UNION {ActionRules[i].keys : i \in 1..Len(ActionRules)}
            \cup UNION {MoodRules[i].keys : i \in 1..Len(MoodRules)}

\* the words scene contents are assembled from when the classifier is applied
\* on its own: keywords, words that contain a keyword, and words that hold none
SceneWords ==
    { "the", "walked", "library", "forest", "Street", "cave",
      "CASTLE", "city", "peak", "ocean", "running", "chased",
      "battle", "searching", "climbing", "soaring", "discovering", "sneaking",
      "afraid", "unhappy", "nomad", "amazed", "sadly", "wonder",
      "furious", "joyful" }

\* the content of a padded scene after the character's name: line 329
PadText == " continues their adventure with determination and courage."

\* the characters of a lexeme, a scene word, a keyword or a generated text
Spelling(t) ==
    CASE t = MARK -> <<"S", "C", "E", "N", "E", " ", "1", ":">>
      [] t = MARK3 -> <<"S", "C", "E", "N", "E", " ", "3", ":">>
      [] t = LMARK -> <<"S", "c", "e", "n", "e", " ", "2">>
      [] t = NL -> <<"\n">>
      [] t = SP -> <<" ">>
      [] t = DOT -> <<".">>
      [] t = W1 -> <<"L", "u", "n", "a", " ", "f", "o", "u", "n", "d", " ", "a", " ", "b", "o", "o", "k", " ", "i", "n", " ", "t", "h", "e", " ", "a", "n", "c", "i", "e", "n", "t", " ", "l", "i", "b", "r", "a", "r", "y">>
      [] t = W2 -> <<"a", " ", "s", "c", "a", "r", "e", "d", " ", "f", "o", "x", " ", "w", "a", "s", " ", "h", "i", "d", "i", "n", "g", " ", "n", "e", "a", "r", " ", "t", "h", "e", " ", "o", "l", "d", " ", "t", "r", "e", "e">>
      [] t = "the" -> <<"t", "h", "e">>
      [] t = "walked" -> <<"w", "a", "l", "k", "e", "d">>
      [] t = "library" -> <<"l", "i", "b", "r", "a", "r", "y">>
      [] t = "forest" -> <<"f", "o", "r", "e", "s", "t">>
      [] t = "Street" -> <<"S", "t", "r", "e", "e", "t">>
      [] t = "cave" -> <<"c", "a", "v", "e">>
      [] t = "CASTLE" -> <<"C", "A", "S", "T", "L", "E">>
      [] t = "city" -> <<"c", "i", "t", "y">>
      [] t = "peak" -> <<"p", "e", "a", "k">>
      [] t = "ocean" -> <<"o", "c", "e", "a", "n">>
      [] t = "running" -> <<"r", "u", "n", "n", "i", "n", "g">>
      [] t = "chased" -> <<"c", "h", "a", "s", "e", "d">>
      [] t = "battle" -> <<"b", "a", "t", "t", "l", "e">>
      [] t = "searching" -> <<"s", "e", "a", "r", "c", "h", "i", "n", "g">>
      [] t = "climbing" -> <<"c", "l", "i", "m", "b", "i", "n", "g">>
      [] t = "soaring" -> <<"s", "o", "a", "r", "i", "n", "g">>
      [] t = "discovering" -> <<"d", "i", "s", "c", "o", "v", "e", "r", "i", "n", "g">>
      [] t = "sneaking" -> <<"s", "n", "e", "a", "k", "i", "n", "g">>
      [] t = "afraid" -> <<"a", "f", "r", "a", "i", "d">>
      [] t = "unhappy" -> <<"u", "n", "h", "a", "p", "p", "y">>
      [] t = "nomad" -> <<"n", "o", "m", "a", "d">>
      [] t = "amazed" -> <<"a", "m", "a", "z", "e", "d">>
      [] t = "sadly" -> <<"s", "a", "d", "l", "y">>
      [] t = "wonder" -> <<"w", "o", "n", "d", "e", "r">>
      [] t = "furious" -> <<"f", "u", "r", "i", "o", "u", "s">>
      [] t = "joyful" -> <<"j", "o", "y", "f", "u", "l">>
      [] t = "angry" -> <<"a", "n", "g", "r", "y">>
      [] t = "ascending" -> <<"a", "s", "c", "e", "n", "d", "i", "n", "g">>
      [] t = "book" -> <<"b", "o", "o", "k">>
      [] t = "castle" -> <<"c", "a", "s", "t", "l", "e">>
      [] t = "chase" -> <<"c", "h", "a", "s", "e">>
      [] t = "crying" -> <<"c", "r", "y", "i", "n", "g">>
      [] t = "curious" -> <<"c", "u", "r", "i", "o", "u", "s">>
      [] t = "excited" -> <<"e", "x", "c", "i", "t", "e", "d">>
      [] t = "fighting" -> <<"f", "i", "g", "h", "t", "i", "n", "g">>
      [] t = "flying" -> <<"f", "l", "y", "i", "n", "g">>
      [] t = "found" -> <<"f", "o", "u", "n", "d">>
      [] t = "happy" -> <<"h", "a", "p", "p", "y">>
      [] t = "hiding" -> <<"h", "i", "d", "i", "n", "g">>
      [] t = "investigate" -> <<"i", "n", "v", "e", "s", "t", "i", "g", "a", "t", "e">>
      [] t = "joy" -> <<"j", "o", "y">>
      [] t = "looking" -> <<"l", "o", "o", "k", "i", "n", "g">>
      [] t = "mad" -> <<"m", "a", "d">>
      [] t = "mountain" -> <<"m", "o", "u", "n", "t", "a", "i", "n">>
      [] t = "sad" -> <<"s", "a", "d">>
      [] t = "scared" -> <<"s", "c", "a", "r", "e", "d">>
      [] t = "sea" -> <<"s", "e", "a">>
      [] t = "shocked" -> <<"s", "h", "o", "c", "k", "e", "d">>
      [] t = "street" -> <<"s", "t", "r", "e", "e", "t">>
      [] t = "surprised" -> <<"s", "u", "r", "p", "r", "i", "s", "e", "d">>
      [] t = "terrified" -> <<"t", "e", "r", "r", "i", "f", "i", "e", "d">>
      [] t = "tower" -> <<"t", "o", "w", "e", "r">>
      [] t = "tree" -> <<"t", "r", "e", "e">>
      [] t = "underground" -> <<"u", "n", "d", "e", "r", "g", "r", "o", "u", "n", "d">>
      [] t = "upset" -> <<"u", "p", "s", "e", "t">>
      [] t = "Luna" -> <<"L", "u", "n", "a">>
      [] t = PadText -> <<" ", "c", "o", "n", "t", "i", "n", "u", "e", "s", " ", "t", "h", "e", "i", "r", " ", "a", "d", "v", "e", "n", "t", "u", "r", "e", " ", "w", "i", "t", "h", " ", "d", "e", "t", "e", "r", "m", "i", "n", "a", "t", "i", "o", "n", " ", "a", "n", "d", " ", "c", "o", "u", "r", "a", "g", "e", ".">>

\* sceneContent.toLowerCase().includes(kw), lexeme by lexeme: the keywords that
\* occur in the lower-cased lexeme.  No keyword lies across two lexemes: the
\* words of a content are separated, and no keyword begins in W1 or W2 and
\* ends in the lexeme that follows it.
LexemeKeywords ==
    { p \in { <<t, kw>> : t \in Lexemes \cup SceneWords \cup {c.name : c \in Characters} \cup {PadText},
                           kw \in Keywords } :
        IncludesChars(ToLowerCase(Spelling(p[1])), Spelling(p[2])) }

\* contentWords.includes(kw)
Includes(content, kw) == \E i \in 1..Len(content) : <<content[i], kw>> \in LexemeKeywords

\* faulty variant: the chain is read from its end, the last rule that matches wins
ClassifyLastMatch(rules, default, content) ==
    LET hits == {i \in 1..Len(rules) : \E kw \in rules[i].keys : Includes(content, kw)}
    IN  IF hits = {} THEN default
        ELSE rules[CHOOSE i \in hits : \A j \in hits : i >= j].label

\* one if / else-if chain: the label of the first rule with a keyword in the content
Classify(rules, default, content) ==
    LET hits == {i \in 1..Len(rules) : \E kw \in rules[i].keys : Includes(content, kw)}
    IN  IF hits = {} THEN default
        ELSE rules[CHOOSE i \in hits : \A j \in hits : i <= j].label

\* characterDNA.traits?.slice(0, 2)?.join(', ') || 'adventurous'
StoryboardTraits(dna) ==
    LET n      == IF Len(dna.traits) < 2 THEN Len(dna.traits) ELSE 2
        joined == JoinWith([i \in 1..n |-> <<dna.traits[i]>>], <<", ">>)
    IN  IF dna.traitsKind = "array" /\ StrLen(joined) > 0 THEN joined ELSE <<"adventurous">>

\* faulty variant: characterDNA.traits.slice(0, 2).join(', ') without optional chaining
generateStoryboardPromptThrowsNoChaining(dna) == dna.traitsKind # "array"

\* the optional chaining of line 476 throws only for a traits value that is
\* neither absent nor an array
generateStoryboardPromptThrows(dna) == dna.traitsKind \notin {"absent", "array"}

generateStoryboardPrompt(sceneTitle, sceneContent, dna) ==
    LET characterName == IF dna.name = "" THEN "character" ELSE dna.name
        setting == Classify(SettingRules, "indoor scene", sceneContent)
        action  == Classify(ActionRules, "standing", sceneContent)
        mood    == Classify(MoodRules, "neutral", sceneContent)
    IN  <<"Create a detailed storyboard panel for: ">> \o sceneTitle
        \o <<"Main character: ", characterName, " (">> \o StoryboardTraits(dna)
        \o <<")", "Setting: ", setting, "Action: ", characterName, " is ", action,
             "Mood/Expression: ", mood, "Based on story content: ">>
        \o Substring(sceneContent, 150) \o <<"...">>

StoryTitle(dna) == <<dna.name, "'s Adventure">>

Scene(n, title, content, description, dna, prompt) ==
    [ id              |-> "scene_" \o ToString(n),
      number          |-> n,
      title           |-> title,
      content         |-> content,
      description     |-> description,
      characterName   |-> dna.name,
      storyboardPrompt |-> prompt ]

Story(dna, scenes, total, emergency, fallback) ==
    [ title             |-> StoryTitle(dna),
      scenes            |-> scenes,
      totalScenes       |-> total,
      character         |-> dna,
      emergencyFallback |-> emergency,
      fallbackParsed    |-> fallback ]

(***************************************************************************)
(* createEmergencyFallback                                                 *)
(***************************************************************************)
createEmergencyFallback(dna, storyText) ==
    LET fallbackContent ==
            IF StrLen(storyText) > 0 THEN storyText
            ELSE <<dna.name,
                   " embarks on an exciting adventure filled with challenges and discoveries.">>
    IN  Story(dna,
              << [ id               |-> "scene_1",
                   number           |-> 1,
                   title            |-> <<"The Adventure Begins">>,
                   content          |-> fallbackContent,
                   description      |-> fallbackContent,
                   characterName    |-> dna.name,
                   storyboardPrompt |-> <<dna.name, " begins an exciting adventure">> ] >>,
              1, TRUE, FALSE)

(***************************************************************************)
(* splitTextIntoChunks                                                     *)
(***************************************************************************)
\* text.split(/[.!?]+/): a run of terminators is one separator
RECURSIVE SplitSentences(_)
SplitSentences(s) ==
    IF \A i \in 1..Len(s) : s[i] # DOT
    THEN <<s>>
    ELSE LET i == CHOOSE j \in 1..Len(s) :
                      s[j] = DOT /\ \A k \in 1..(j - 1) : s[k] # DOT
             e == CHOOSE j \in i..Len(s) :
                      /\ \A k \in i..j : s[k] = DOT
                      /\ (j = Len(s) \/ s[j + 1] # DOT)
         IN  <<SubSeq(s, 1, i - 1)>> \o SplitSentences(SubSeq(s, e + 1, Len(s)))

Min(a, b) == IF a < b THEN a ELSE b

RECURSIVE ChunkLoop(_, _, _, _)
ChunkLoop(sentences, chunkSize, numChunks, i) ==
    IF i >= numChunks THEN <<>>
    ELSE LET start == i * chunkSize
             end   == Min(start + chunkSize, Len(sentences))
             slice == [k \in 1..(IF end > start THEN end - start ELSE 0)
                          |-> sentences[start + k]]
             chunk == Trim(JoinWith(slice, <<DOT, SP>>))
             rest  == ChunkLoop(sentences, chunkSize, numChunks, i + 1)
         IN  IF StrLen(chunk) > 0 THEN <<chunk \o <<DOT>>>> \o rest ELSE rest

splitTextIntoChunks(text, numChunks) ==
    LET sentences == SelectSeqNonBlank(SplitSentences(text))
        chunkSize == (Len(sentences) + numChunks - 1) \div numChunks
    IN  ChunkLoop(sentences, chunkSize, numChunks, 0)

(***************************************************************************)
(* fallbackParseStory                                                      *)
(***************************************************************************)
\* trimmedLine.match(/^SCENE\s+\d+/i) || trimmedLine.match(/^Scene\s+\d+/i)
IsSceneHeader(trimmedLine) ==
    trimmedLine # <<>> /\ Head(trimmedLine) \in ColonMarkers \cup {LMARK}

\* one .replace(/^SCENE\s+\d+:\s*/i, ''): the colon is required
StripMarker(line) ==
    IF line # <<>> /\ Head(line) \in ColonMarkers THEN TrimStart(Tail(line)) ELSE line

\* the two chained replaces, then || `Scene ${sceneCount}`
HeaderTitle(trimmedLine, sceneCount) ==
    LET stripped == StripMarker(StripMarker(trimmedLine))
    IN  IF StrLen(stripped) > 0 THEN stripped
        ELSE <<"Scene " \o ToString(sceneCount)>>

\* faulty variant: a scene is put into the result at the next header whether or
\* not it has content
RECURSIVE LineScanFlushesEmpty(_, _, _)
LineScanFlushesEmpty(lines, st, dna) ==
    IF lines = <<>> THEN st
    ELSE LET trimmedLine == Trim(Head(lines))
             flushed == IF st.open THEN Append(st.scenes, st.cur) ELSE st.scenes
             n  == st.sceneCount + 1
             nx == IF IsSceneHeader(trimmedLine)
                   THEN [scenes     |-> flushed,
                         open       |-> TRUE,
                         cur        |-> Scene(n, HeaderTitle(trimmedLine, n),
                                              <<>>, <<>>, dna, <<>>),
                         sceneCount |-> n]
                   ELSE IF st.open /\ Len(trimmedLine) > 0
                   THEN [st EXCEPT !.cur.content =
                            (IF StrLen(@) > 0 THEN @ \o <<SP>> ELSE @) \o trimmedLine]
                   ELSE st
         IN  LineScanFlushesEmpty(Tail(lines), nx, dna)

\* the for loop over the lines; st = [scenes, open, cur, sceneCount]
RECURSIVE LineScan(_, _, _)
LineScan(lines, st, dna) ==
    IF lines = <<>> THEN st
    ELSE LET trimmedLine == Trim(Head(lines))
             flushed == IF st.open /\ Len(Trim(st.cur.content)) > 0
                        THEN Append(st.scenes, st.cur) ELSE st.scenes
             n  == st.sceneCount + 1
             nx == IF IsSceneHeader(trimmedLine)
                   THEN [scenes     |-> flushed,
                         open       |-> TRUE,
                         cur        |-> Scene(n, HeaderTitle(trimmedLine, n),
                                              <<>>, <<>>, dna, <<>>),
                         sceneCount |-> n]
                   ELSE IF st.open /\ Len(trimmedLine) > 0
                   THEN [st EXCEPT !.cur.content =
                            (IF StrLen(@) > 0 THEN @ \o <<SP>> ELSE @) \o trimmedLine]
                   ELSE st
         IN  LineScan(Tail(lines), nx, dna)

NoScene == Scene(0, <<>>, <<>>, <<>>, [name |-> "", traitsKind |-> "absent", traits |-> <<>>], <<>>)

LineScanScenes(storyText, dna) ==
    LET lines == SelectSeqNonBlank(SplitOn(storyText, NL))
        st    == LineScan(lines,
                          [scenes |-> <<>>, open |-> FALSE, cur |-> NoScene, sceneCount |-> 0],
                          dna)
    IN  \* Add the last scene
        IF st.open /\ Len(Trim(st.cur.content)) > 0
        THEN Append(st.scenes, st.cur) ELSE st.scenes

ChunkScenes(storyText, dna) ==
    LET textChunks == splitTextIntoChunks(storyText, 4)
    IN  [i \in 1..Len(textChunks) |->
            Scene(i, <<"Scene " \o ToString(i)>>, textChunks[i], textChunks[i], dna,
                  generateStoryboardPrompt(<<"Scene " \o ToString(i)>>, textChunks[i], dna))]

\* the scenes before the final forEach and slice
FallbackScenes(storyText, dna) ==
    LET scanned == LineScanScenes(storyText, dna)
    IN  IF Len(scanned) = 0 THEN ChunkScenes(storyText, dna) ELSE scanned

fallbackParseStoryThrows(storyText, dna) ==
    generateStoryboardPromptThrows(dna) /\ Len(FallbackScenes(storyText, dna)) > 0

\* faulty variant: totalScenes: scenes.length, the count before the slice
fallbackParseStoryCountsAll(storyText, dna) ==
    LET found  == FallbackScenes(storyText, dna)
        scenes == [i \in 1..Len(found) |->
                     [found[i] EXCEPT
                        !.description = found[i].content,
                        !.storyboardPrompt =
                            generateStoryboardPrompt(found[i].title, found[i].content, dna)]]
    IN  Story(dna, SubSeq(scenes, 1, Min(Len(scenes), 4)), Len(scenes), FALSE, TRUE)

\* faulty variant: scenes.slice(-4), the last 4 scenes are kept
fallbackParseStoryKeepsLast(storyText, dna) ==
    LET found  == FallbackScenes(storyText, dna)
        scenes == [i \in 1..Len(found) |->
                     [found[i] EXCEPT
                        !.description = found[i].content,
                        !.storyboardPrompt =
                            generateStoryboardPrompt(found[i].title, found[i].content, dna)]]
    IN  Story(dna, SubSeq(scenes, Len(scenes) - Min(Len(scenes), 4) + 1, Len(scenes)),
              Min(Len(scenes), 4), FALSE, TRUE)

fallbackParseStory(storyText, dna) ==
    LET found  == FallbackScenes(storyText, dna)
        scenes == [i \in 1..Len(found) |->
                     [found[i] EXCEPT
                        !.description = found[i].content,
                        !.storyboardPrompt =
                            generateStoryboardPrompt(found[i].title, found[i].content, dna)]]
    IN  Story(dna, SubSeq(scenes, 1, Min(Len(scenes), 4)), Min(Len(scenes), 4), FALSE, TRUE)

(***************************************************************************)
(* parseStoryIntoScenes                                                    *)
(***************************************************************************)
MinStoryLength == 50

\* faulty variant: lines.join('\n') without slice(1): the content keeps the title line
RECURSIVE PrimaryLoopKeepsTitleLine(_, _, _, _)
PrimaryLoopKeepsTitleLine(sceneParts, i, scenes, dna) ==
    IF ~(i <= Len(sceneParts) /\ Len(scenes) < 4) THEN scenes
    ELSE LET part    == Trim(sceneParts[i])
             lines   == SplitOn(part, NL)
             title   == Trim(lines[1])
             content == Trim(JoinWith(lines, <<NL>>))
             sceneNumber == Len(scenes) + 1
         IN  IF Len(part) = 0 THEN PrimaryLoopKeepsTitleLine(sceneParts, i + 1, scenes, dna)
             ELSE IF Len(title) > 0 /\ Len(content) > 0
             THEN PrimaryLoopKeepsTitleLine(sceneParts, i + 1,
                              Append(scenes,
                                     Scene(sceneNumber, title, content, content, dna,
                                           generateStoryboardPrompt(title, content, dna))),
                              dna)
             ELSE PrimaryLoopKeepsTitleLine(sceneParts, i + 1, scenes, dna)

\* faulty variant: the loop runs over every part and keeps the latest 4 scenes
RECURSIVE PrimaryLoopKeepsLatest(_, _, _, _)
PrimaryLoopKeepsLatest(sceneParts, i, scenes, dna) ==
    IF ~(i <= Len(sceneParts)) THEN scenes
    ELSE LET part    == Trim(sceneParts[i])
             lines   == SplitOn(part, NL)
             title   == Trim(lines[1])
             content == Trim(JoinWith(Tail(lines), <<NL>>))
             sceneNumber == Min(Len(scenes) + 1, 4)
             kept    == IF Len(scenes) < 4 THEN scenes
                        ELSE [k \in 1..3 |-> [scenes[k + 1] EXCEPT
                                                 !.number = k,
                                                 !.id = "scene_" \o ToString(k)]]
         IN  IF Len(part) = 0 THEN PrimaryLoopKeepsLatest(sceneParts, i + 1, scenes, dna)
             ELSE IF Len(title) > 0 /\ Len(content) > 0
             THEN PrimaryLoopKeepsLatest(sceneParts, i + 1,
                              Append(kept,
                                     Scene(sceneNumber, title, content, content, dna,
                                           generateStoryboardPrompt(title, content, dna))),
                              dna)
             ELSE PrimaryLoopKeepsLatest(sceneParts, i + 1, scenes, dna)

\* the for loop of the primary strategy, i a 1-based index into sceneParts
RECURSIVE PrimaryLoop(_, _, _, _)
PrimaryLoop(sceneParts, i, scenes, dna) ==
    IF ~(i <= Len(sceneParts) /\ Len(scenes) < 4) THEN scenes
    ELSE LET part    == Trim(sceneParts[i])
             lines   == SplitOn(part, NL)
             title   == Trim(lines[1])
             content == Trim(JoinWith(Tail(lines), <<NL>>))
             sceneNumber == Len(scenes) + 1
         IN  IF Len(part) = 0 THEN PrimaryLoop(sceneParts, i + 1, scenes, dna)
             ELSE IF Len(title) > 0 /\ Len(content) > 0
             THEN PrimaryLoop(sceneParts, i + 1,
                              Append(scenes,
                                     Scene(sceneNumber, title, content, content, dna,
                                           generateStoryboardPrompt(title, content, dna))),
                              dna)
             ELSE PrimaryLoop(sceneParts, i + 1, scenes, dna)

\* the digits written in a marker
DigitsOf(marker) == IF marker = MARK3 THEN 3 ELSE 1

\* the digits of the markers of a text, in order
RECURSIVE MarkerDigits(_)
MarkerDigits(s) ==
    IF s = <<>> THEN <<>>
    ELSE (IF Head(s) \in ColonMarkers THEN <<DigitsOf(Head(s))>> ELSE <<>>)
         \o MarkerDigits(Tail(s))

\* the loop of the primary strategy with the scene number read from the marker
\* that opens the part; the part before the first marker counts as number 1
RECURSIVE PrimaryLoopByDigits(_, _, _, _, _)
PrimaryLoopByDigits(sceneParts, digits, i, scenes, dna) ==
    IF ~(i <= Len(sceneParts) /\ Len(scenes) < 4) THEN scenes
    ELSE LET part    == Trim(sceneParts[i])
             lines   == SplitOn(part, NL)
             title   == Trim(lines[1])
             content == Trim(JoinWith(Tail(lines), <<NL>>))
             sceneNumber == IF i = 1 THEN 1 ELSE digits[i - 1]
         IN  IF Len(part) = 0 THEN PrimaryLoopByDigits(sceneParts, digits, i + 1, scenes, dna)
             ELSE IF Len(title) > 0 /\ Len(content) > 0
             THEN PrimaryLoopByDigits(sceneParts, digits, i + 1,
                              Append(scenes,
                                     Scene(sceneNumber, title, content, content, dna,
                                           generateStoryboardPrompt(title, content, dna))),
                              dna)
             ELSE PrimaryLoopByDigits(sceneParts, digits, i + 1, scenes, dna)

\* faulty variant: sceneNumber is parsed from the digits of the marker
PrimaryScenesNumberedByMarker(storyText, dna) ==
    LET sceneParts == SplitOnMarkers(storyText)
        startIndex == IF Len(Trim(sceneParts[1])) = 0 THEN 2 ELSE 1
    IN  PrimaryLoopByDigits(sceneParts, MarkerDigits(storyText), startIndex, <<>>, dna)

\* faulty variant: the segment before the first marker is always skipped
PrimaryScenesSkipsFirst(storyText, dna) ==
    PrimaryLoop(SplitOnMarkers(storyText), 2, <<>>, dna)

PrimaryScenes(storyText, dna) ==
    LET sceneParts == SplitOnMarkers(storyText)
        startIndex == IF Len(Trim(sceneParts[1])) = 0 THEN 2 ELSE 1
    IN  PrimaryLoop(sceneParts, startIndex, <<>>, dna)

\* the try block throws when the first contributing segment builds its prompt
PrimaryThrows(storyText, dna) ==
    generateStoryboardPromptThrows(dna) /\ Len(PrimaryScenes(storyText, dna)) > 0

\* while (scenes.length < 4): the padded scenes carry no description
RECURSIVE PadScenes(_, _)
PadScenes(scenes, dna) ==
    IF Len(scenes) >= 4 THEN scenes
    ELSE LET sceneNum        == Len(scenes) + 1
             fallbackContent ==
                 <<dna.name, PadText>>
             title           == <<"Scene " \o ToString(sceneNum)>>
         IN  PadScenes(Append(scenes,
                              Scene(sceneNum, title, fallbackContent, UNDEFINED, dna,
                                    generateStoryboardPrompt(title, fallbackContent, dna))),
                       dna)

\* faulty variant: the guard tests !storyText only
TooShortEmptyOnly(storyText) == StrLen(storyText) = 0

TooShort(storyText) == StrLen(storyText) = 0 \/ StrLen(storyText) < MinStoryLength

parseStoryIntoScenes(storyText, dna) ==
    IF TooShort(storyText) THEN createEmergencyFallback(dna, storyText)
    ELSE LET scenes == PrimaryScenes(storyText, dna)
         IN  IF PrimaryThrows(storyText, dna) \/ Len(scenes) = 0
             THEN fallbackParseStory(storyText, dna)
             ELSE Story(dna,
                        IF Len(scenes) > 4 THEN SubSeq(scenes, 1, 4)
                        ELSE PadScenes(scenes, dna),
                        4, FALSE, FALSE)

\* whether the call ends by throwing instead of returning the Story above
parseStoryIntoScenesThrows(storyText, dna) ==
    /\ ~TooShort(storyText)
    /\ IF PrimaryThrows(storyText, dna) \/ Len(PrimaryScenes(storyText, dna)) = 0
       THEN fallbackParseStoryThrows(storyText, dna)
       ELSE Len(PrimaryScenes(storyText, dna)) < 4 /\ generateStoryboardPromptThrows(dna)

(***************************************************************************)
(* Error messages are sequences of characters, so that toLowerCase and     *)
(* includes are computed character by character.                           *)
(***************************************************************************)
retryableMessages ==
    << <<"o", "v", "e", "r", "l", "o", "a", "d", "e", "d">>,
       <<"s", "e", "r", "v", "i", "c", "e", " ", "u", "n", "a", "v", "a", "i", "l", "a", "b", "l", "e">>,
       <<"5", "0", "3">>,
       <<"t", "e", "m", "p", "o", "r", "a", "r", "i", "l", "y", " ", "u", "n", "a", "v", "a", "i", "l", "a", "b", "l", "e">>,
       <<"r", "a", "t", "e", " ", "l", "i", "m", "i", "t">>,
       <<"q", "u", "o", "t", "a", " ", "e", "x", "c", "e", "e", "d", "e", "d">>,
       <<"t", "i", "m", "e", "d", " ", "o", "u", "t">>,
       <<"t", "i", "m", "e", "o", "u", "t">> >>

\* an error value: an Error with a message, or a rejection value without one
ErrorOf(message) == [hasMessage |-> TRUE, message |-> message]
NoMessageError   == [hasMessage |-> FALSE, message |-> <<>>]

\* error.message.toLowerCase() throws a TypeError when there is no message
isRetryableErrorThrows(error) == ~error.hasMessage

\* faulty variant: the message is matched without toLowerCase()
isRetryableErrorCaseSensitive(error) ==
    \E k \in 1..Len(retryableMessages) : IncludesChars(error.message, retryableMessages[k])

isRetryableError(error) ==
    LET errorMessage == ToLowerCase(error.message)
    IN  \E k \in 1..Len(retryableMessages) : IncludesChars(errorMessage, retryableMessages[k])

\* the messages the model client fails with
MsgRateLimit    == <<"R", "a", "t", "e", " ", "L", "i", "m", "i", "t", " ", "h", "i", "t">>
MsgOverloaded   == <<"M", "o", "d", "e", "l", " ", "O", "V", "E", "R", "L", "O", "A", "D", "E", "D">>
MsgUnavailable  == <<"S", "e", "r", "v", "i", "c", "e", " ", "U", "n", "a", "v", "a", "i", "l", "a", "b", "l", "e">>
Msg503          == <<"H", "T", "T", "P", " ", "5", "0", "3">>
MsgTemporarily  == <<"T", "e", "m", "p", "o", "r", "a", "r", "i", "l", "y", " ", "u", "n", "a", "v", "a", "i", "l", "a", "b", "l", "e">>
MsgQuota        == <<"Q", "u", "o", "t", "a", " ", "e", "x", "c", "e", "e", "d", "e", "d">>
MsgTimedOut     == <<"r", "e", "a", "d", " ", "t", "i", "m", "e", "d", " ", "o", "u", "t">>
MsgTimeout      == <<"E", "T", "I", "M", "E", "O", "U", "T">>
MsgInvalidKey   == <<"i", "n", "v", "a", "l", "i", "d", " ", "a", "p", "i", " ", "k", "e", "y">>
MsgRateLimited  == <<"r", "a", "t", "e", "-", "l", "i", "m", "i", "t", "e", "d">>
MsgTimeOut      == <<"t", "i", "m", "e", " ", "o", "u", "t">>
MsgEmpty        == <<>>

ModelMessages ==
    { MsgRateLimit,
      MsgOverloaded,
      MsgUnavailable,
      Msg503,
      MsgTemporarily,
      MsgQuota,
      MsgTimedOut,
      MsgTimeout,
      MsgInvalidKey,
      MsgRateLimited,
      MsgTimeOut,
      MsgEmpty }

ModelErrors == {ErrorOf(m) : m \in ModelMessages} \cup {NoMessageError}

requestTimeout == 45000

\* faulty variant: a timeout message that holds no retryable keyword
TimeoutMessageNoKeyword ==
    <<"G", "e", "m", "i", "n", "i", " ", "A", "P", "I", " ", "r", "e", "q", "u", "e", "s", "t", " ", "e", "x", "c", "e", "e", "d", "e", "d", " ">>
    \o <<ToString(requestTimeout \div 1000)>> \o <<" ", "s", "e", "c", "o", "n", "d", "s">>

\* `Gemini API request timed out after ${requestTimeout/1000} seconds`
TimeoutMessage ==
    <<"G", "e", "m", "i", "n", "i", " ", "A", "P", "I", " ", "r", "e", "q", "u", "e", "s", "t", " ", "t", "i", "m", "e", "d", " ", "o", "u", "t", " ", "a", "f", "t", "e", "r", " ">>
    \o <<ToString(requestTimeout \div 1000)>> \o <<" ", "s", "e", "c", "o", "n", "d", "s">>

\* `Story generation failed after ${attempt} attempts: ${error.message}`
TerminalMessage(attempt, message) ==
    <<"S", "t", "o", "r", "y", " ", "g", "e", "n", "e", "r", "a", "t", "i", "o", "n", " ", "f", "a", "i", "l", "e", "d", " ", "a", "f", "t", "e", "r", " ">>
    \o <<ToString(attempt)>> \o <<" ", "a", "t", "t", "e", "m", "p", "t", "s", ":", " ">> \o message

(***************************************************************************)
(* buildStoryPrompt.  Tone and length are sequences of characters, as      *)
(* toUpperCase and the property lookup read them.                          *)
(***************************************************************************)
\* v || d
OrElse(v, d) == IF v = UNDEFINED \/ v = JsNull \/ Len(v) = 0 THEN d ELSE v

toneGuidance ==
    << [key |-> <<"l", "i", "g", "h", "t", "h", "e", "a", "r", "t", "e", "d">>,
        text |-> <<"Keep it fun and upbeat">>],
       [key |-> <<"s", "e", "r", "i", "o", "u", "s">>,
        text |-> <<"Make it thoughtful and meaningful">>],
       [key |-> <<"h", "u", "m", "o", "r", "o", "u", "s">>,
        text |-> <<"Add comedy and funny moments">>],
       [key |-> <<"d", "r", "a", "m", "a", "t", "i", "c">>,
        text |-> <<"Include emotional depth and tension">>],
       [key |-> <<"m", "y", "s", "t", "e", "r", "i", "o", "u", "s">>,
        text |-> <<"Add suspense and intrigue">>],
       [key |-> <<"r", "o", "m", "a", "n", "t", "i", "c">>,
        text |-> <<"Include heartwarming moments">>] >>

lengthGuidance ==
    << [key |-> <<"s", "h", "o", "r", "t">>,
        text |-> <<"Simple and focused story progression">>],
       [key |-> <<"m", "e", "d", "i", "u", "m">>,
        text |-> <<"Well-developed story with clear progression">>],
       [key |-> <<"l", "o", "n", "g">>,
        text |-> <<"Rich story with detailed character development">>] >>

\* names every object literal inherits from Object.prototype; the value read
\* under such a name is a function, which the template prints as its source
InheritedNames ==
    { <<"c", "o", "n", "s", "t", "r", "u", "c", "t", "o", "r">>,
      <<"t", "o", "S", "t", "r", "i", "n", "g">> }

InheritedText(key) ==
    IF key = <<"c", "o", "n", "s", "t", "r", "u", "c", "t", "o", "r">>
    THEN <<"function Object() { [native code] }">>
    ELSE <<"function toString() { [native code] }">>

\* table[key]: an own property, an inherited one, or undefined
Lookup(table, key) ==
    IF \E i \in 1..Len(table) : table[i].key = key
    THEN table[CHOOSE i \in 1..Len(table) : table[i].key = key].text
    ELSE IF key \in InheritedNames THEN InheritedText(key)
    ELSE UNDEFINED

\* characterDNA.description, which a profile may not have
DescriptionOf(dna) == IF "description" \in DOMAIN dna THEN dna.description ELSE UNDEFINED

\* characterDNA.traits?.join(', ')
JoinedTraits(dna) ==
    IF dna.traitsKind = "array"
    THEN JoinWith([i \in 1..Len(dna.traits) |-> <<dna.traits[i]>>], <<", ">>)
    ELSE UNDEFINED

\* faulty variant: tone and length are used as given, without a default
OptionOrDefaultAsGiven(v, d) == IF v = UNDEFINED THEN <<>> ELSE v

\* options.tone || 'lighthearted' and options.length || 'medium'
OptionOrDefault(v, d) == OrElse(v, d)

Humorous == <<"h", "u", "m", "o", "r", "o", "u", "s">>

\* the four-way choice of the example scenes on tone
ByTone(tone, humorous, dramatic, mysterious, other) ==
    IF tone = Humorous THEN humorous
    ELSE IF tone = <<"d", "r", "a", "m", "a", "t", "i", "c">> THEN dramatic
    ELSE IF tone = <<"m", "y", "s", "t", "e", "r", "i", "o", "u", "s">> THEN mysterious
    ELSE other

\* lines 195-206 of the template
PromptHeader(prompt, genre, characterName, characterDescription, characterTraits, tone, length, includeVoice, includeVideo) ==
    <<"You are a professional story creator. Create an engaging story with EXACTLY 4 scenes.",
      NL, NL, "CHARACTER: ", characterName, NL, "CHARACTER DESCRIPTION: ">>
    \o characterDescription \o <<NL, "TRAITS: ">> \o characterTraits
    \o <<NL, "STORY PROMPT: ">> \o prompt \o <<NL, "GENRE: ", genre, NL, "TONE: ">>
    \o tone \o <<" - ">> \o OrElse(Lookup(toneGuidance, tone), <<"Engaging and appropriate">>)
    \o <<NL, "LENGTH: ">> \o length \o <<" - ">>
    \o OrElse(Lookup(lengthGuidance, length), <<"Well-paced story">>)
    \o <<NL, "VOICE NARRATION: ",
         IF includeVoice THEN "Yes - Include narrative elements"
                         ELSE "No - Focus on visual action only",
         NL, "VIDEO GENERATION: ",
         IF includeVideo THEN "Yes - Optimize for visual storytelling"
                         ELSE "No - Text-focused",
         NL, NL>>

\* lines 207-222
PromptFormat(tone) ==
    <<"CRITICAL REQUIREMENT: Create EXACTLY 4 scenes - NO MORE, NO LESS", NL, NL,
      "MANDATORY FORMAT - DO NOT DEVIATE:", NL, NL,
      "SCENE 1: [Engaging scene title]", NL,
      "[2-3 sentences of engaging story content that readers will enjoy. Make it narrative, descriptive, and ">>
    \o tone
    \o <<". Focus on character emotions, dialogue, and story progression rather than just visual descriptions.]",
         NL, NL, "SCENE 2: [Engaging scene title]", NL,
         "[2-3 sentences of engaging story content that readers will enjoy. Continue the narrative naturally from Scene 1. Include character development and ">>
    \o tone
    \o <<" elements.]", NL, NL, "SCENE 3: [Engaging scene title]", NL,
         "[2-3 sentences of engaging story content that readers will enjoy. Build tension or develop the plot further. Maintain the ">>
    \o tone
    \o <<" throughout.]", NL, NL, "SCENE 4: [Engaging scene title]", NL,
         "[2-3 sentences of engaging story content that readers will enjoy. Provide a satisfying conclusion that matches the ">>
    \o tone \o <<" and resolves the story.]", NL, NL>>

\* lines 223-236
PromptRequirements(genre, characterName, characterDescription, characterTraits, tone, length, includeVoice, includeVideo) ==
    <<"REQUIREMENTS:", NL, "- EXACTLY 4 scenes only", NL,
      "- Each scene must start with \"SCENE X:\"", NL,
      "- Write 2-3 engaging sentences per scene that tell a story", NL,
      "- Focus on narrative, dialogue, emotions, and character development", NL,
      "- Match the ">> \o tone
    \o <<" tone throughout", NL, "- Make it readable and enjoyable for humans", NL,
         "- Consider ", characterName, "'s traits: ">> \o characterTraits
    \o <<NL, "- Use the character description: ">> \o characterDescription
    \o <<NL, "- Appropriate for ", genre, " genre and ">> \o length
    \o <<" length", NL, "- NO additional scenes beyond 4", NL>>
    \o (IF includeVoice THEN <<"- Include narrative elements suitable for voice-over">> ELSE <<>>)
    \o <<NL>>
    \o (IF includeVideo THEN <<"- Ensure each scene is visually compelling for video">> ELSE <<>>)
    \o <<NL, NL>>

\* lines 237-250
PromptExample(characterName, tone) ==
    <<"EXAMPLE FOR ">> \o ToUpperCase(tone)
    \o <<" TONE:", NL, "SCENE 1: The Mysterious Discovery", NL, characterName,
         " was exploring the old library when they noticed a strange glow coming from behind the dusty shelves. ">>
    \o ByTone(tone,
              <<"With typical clumsiness, they knocked over three books while investigating.">>,
              <<"Their heart raced as they approached the mysterious light.">>,
              <<"An eerie silence filled the air as they cautiously moved closer.">>,
              <<"Curiosity sparked in their eyes as they investigated.">>)
    \o <<" What they found would change everything.", NL, NL,
         "SCENE 2: The Secret Revealed", NL>>
    \o ByTone(tone,
              <<characterName, " couldn't believe their eyes - and immediately tripped over their own feet in surprise.">>,
              <<characterName, "'s eyes widened in disbelief at what lay before them.">>,
              <<characterName, " carefully examined the discovery, sensing its importance.">>,
              <<characterName, " gasped as they realized what they had found.">>)
    \o <<" The ancient artifact hummed with energy, its surface covered in symbols they had never seen before. ">>
    \o (IF tone = Humorous
        THEN <<"They poked it experimentally, hoping it wouldn't explode.">>
        ELSE <<"They knew this discovery would change their life forever.">>)
    \o <<NL, NL, "SCENE 3: The Challenge Emerges", NL>>
    \o ByTone(tone,
              <<"Just as ", characterName, " was getting comfortable with their find, everything went hilariously wrong.">>,
              <<"Suddenly, ", characterName, " realized the true weight of their discovery.">>,
              <<"The artifact began to reveal its secrets, but at what cost?">>,
              <<characterName, " faced their first real test.">>)
    \o <<" The room began to shift and change around them, presenting challenges they never expected. ">>
    \o (IF tone = Humorous
        THEN <<"They wondered if they should have just stayed in bed today.">>
        ELSE <<"This was only the beginning of their adventure.">>)
    \o <<NL, NL, "SCENE 4: The Resolution", NL>>
    \o ByTone(tone,
              <<"Through a combination of luck and questionable decision-making, ", characterName, " found their way forward.">>,
              <<"With courage they didn't know they possessed, ", characterName, " made their choice.">>,
              <<characterName, " embraced the mystery and stepped into the unknown.">>,
              <<characterName, " discovered the strength within themselves.">>)
    \o <<" The artifact's power had awakened something special in them, and they knew their ordinary life was now behind them. ">>
    \o (IF tone = Humorous
        THEN <<"They just hoped the next adventure would involve less falling down.">>
        ELSE <<"This was just the beginning of their extraordinary journey.">>)
    \o <<NL, NL, "NOW CREATE YOUR STORY WITH EXACTLY 4 SCENES FOLLOWING THIS EXACT FORMAT:">>

buildStoryPrompt(prompt, genre, dna, opts) ==
    LET characterName        == IF dna.name = "" THEN "the protagonist" ELSE dna.name
        characterTraits      == OrElse(JoinedTraits(dna), <<"adventurous">>)
        characterDescription == OrElse(DescriptionOf(dna), <<"an adventurous character">>)
        tone         == OptionOrDefault(opts.tone, <<"l", "i", "g", "h", "t", "h", "e", "a", "r", "t", "e", "d">>)
        length       == OptionOrDefault(opts.length, <<"m", "e", "d", "i", "u", "m">>)
        includeVoice == opts.includeVoice # "false"
        includeVideo == opts.includeVideo # "false"
    IN  PromptHeader(prompt, genre, characterName, characterDescription, characterTraits,
                     tone, length, includeVoice, includeVideo)
        \o PromptFormat(tone)
        \o PromptRequirements(genre, characterName, characterDescription, characterTraits,
                              tone, length, includeVoice, includeVideo)
        \o PromptExample(characterName, tone)

\* the options object {}: no property is present
NoOptions ==
    [tone |-> UNDEFINED, length |-> UNDEFINED,
     includeVoice |-> "undefined", includeVideo |-> "undefined"]

\* the prompt argument of generateStory
UserPrompt == <<"Luna explores a hidden library">>

(***************************************************************************)
(* State.                                                                  *)
(***************************************************************************)
maxRetries == 3

Attempts == 1..maxRetries

VARIABLES
    characterDNA,     \* the character profile of the call
    rawText,          \* parse: the text given to parseStoryIntoScenes
    parsePc,          \* parse: "off" | "ready" | "returned" | "thrown"
    parsed,           \* parse: the Story returned by parseStoryIntoScenes
    pc,               \* generateStory: "idle" | "race" | "delay" | "returned" | "thrown"
    attempt,          \* generateStory: the loop variable
    call,             \* generationPromise of each attempt
    timer,            \* the requestTimeout timer of each attempt
    race,             \* the Promise.race of each attempt: "none" | "pending", or what
                      \* settled it: "model" | "modelError" | "timeout"
    delayTimer,       \* the timer of this.delay(retryDelay)
    delays,           \* number of delays started
    guardTimer,       \* the 10 s parsing guard timer
    parsingComplete,  \* the flag the guard's callback reads
    uncaught,         \* an exception thrown out of a timer callback
    result,           \* what generateStory returned or threw
    storyboard,       \* generateStoryboard: what the last call returned or threw
    probePc,          \* checkAvailability: "off" | "idle" | "race" | "returned" | "thrown"
    probeCall,        \* checkAvailability: testPromise
    probeTimer,       \* checkAvailability: the timeoutDuration timer
    probeRace,        \* checkAvailability: the Promise.race, as race above
    report,           \* what checkAvailability returned or threw
    panelContent,     \* generateStoryboardPrompt: the content it is given
    panel,            \* generateStoryboardPrompt: the prompt it returned
    options,          \* the options object of the call
    storyPrompt       \* what buildStoryPrompt returned last

parseVars == <<rawText, parsePc, parsed, storyboard>>
probeVars == <<probePc, probeCall, probeTimer, probeRace, report>>
genVars   == <<pc, attempt, call, timer, race, delayTimer, delays, guardTimer,
               parsingComplete, uncaught, result>>
panelVars == <<panelContent, panel>>
buildVars == <<panelVars, options, storyPrompt>>
vars      == <<characterDNA, parseVars, genVars, probeVars, buildVars>>

NoStory == Story([name |-> "", traitsKind |-> "absent", traits |-> <<>>], <<>>, 0, FALSE, FALSE)

NoCall == [st |-> "none", text |-> <<>>, error |-> NoMessageError]

NoBoard == [kind |-> "none"]

ParseOff ==
    /\ rawText = <<>>
    /\ parsePc = "off"
    /\ parsed = NoStory
    /\ storyboard = NoBoard

ProbeOff ==
    /\ probePc = "off"
    /\ probeCall = NoCall
    /\ probeTimer = "none"
    /\ probeRace = "none"
    /\ report = [kind |-> "none"]

\* no prompt built yet; options = {} is the default of generateStory (line 9)
BuildOff ==
    /\ panelContent = <<>>
    /\ panel = <<>>
    /\ options = NoOptions
    /\ storyPrompt = <<>>

GenIdle ==
    /\ pc = "idle"
    /\ attempt = 0
    /\ call = [a \in Attempts |-> NoCall]
    /\ timer = [a \in Attempts |-> "none"]
    /\ race = [a \in Attempts |-> "none"]
    /\ delayTimer = "none"
    /\ delays = 0
    /\ guardTimer = "none"
    /\ parsingComplete = FALSE
    /\ uncaught = FALSE
    /\ result = [kind |-> "none"]

(***************************************************************************)
(* The parser applied to bounded inputs.                                   *)
(***************************************************************************)
MaxParts == 4

\* the pieces a bounded raw text is assembled from: every single lexeme, a
\* marker line without title, and one well-formed scene
Blocks ==
    {<<t>> : t \in Lexemes}
    \cup { <<MARK, NL>>, <<MARK, SP, W1, NL, W2, DOT, NL>> }

RECURSIVE TextsUpTo(_)
TextsUpTo(n) ==
    IF n = 0 THEN {<<>>}
    ELSE LET prev == TextsUpTo(n - 1)
         IN  prev \cup {t \o b : t \in prev, b \in Blocks}

MaxScenes == 6

\* marked segments: a title line with a body, and a bare marker line followed
\* by one line of text
SceneBlocks ==
    { <<MARK, SP, W1, NL, W2, DOT, NL>>,
      <<MARK, SP, W2, NL, W1, DOT, NL>>,
      <<MARK, NL, W1, NL>>,
      <<MARK, NL, W2, NL>> }

MaxSentences == 5

\* the pieces of a text without markers: sentences, and a line
ParagraphBlocks == { <<W1, DOT, SP>>, <<W2, DOT, SP>>, <<W1, NL>> }

RECURSIVE TextsOf(_, _)
TextsOf(blocks, n) ==
    IF n = 0 THEN {<<>>}
    ELSE LET prev == TextsOf(blocks, n - 1)
         IN  prev \cup {t \o b : t \in prev, b \in blocks}

RawTexts ==
    TextsUpTo(MaxParts) \cup TextsOf(SceneBlocks, MaxScenes)
                        \cup TextsOf(ParagraphBlocks, MaxSentences)

ParseInit ==
    /\ rawText \in RawTexts
    /\ characterDNA \in Characters
    /\ parsePc = "ready"
    /\ parsed = NoStory
    /\ storyboard = NoBoard
    /\ GenIdle
    /\ ProbeOff
    /\ BuildOff

\* one call of parseStoryIntoScenes: it returns a Story or it throws
Parse ==
    /\ parsePc = "ready"
    /\ IF parseStoryIntoScenesThrows(rawText, characterDNA)
       THEN parsePc' = "thrown" /\ parsed' = parsed
       ELSE parsePc' = "returned" /\ parsed' = parseStoryIntoScenes(rawText, characterDNA)
    /\ UNCHANGED <<rawText, characterDNA, storyboard, genVars, probeVars, buildVars>>

ParseNext == Parse

ParseSpec == ParseInit /\ [][ParseNext]_vars

(***************************************************************************)
(* The parser applied to texts whose markers carry differing digits.       *)
(***************************************************************************)
MaxMarked == 4

\* marked segments with the digits 3 and 1 in any order and number: two that
\* contribute a scene, a bare marker, a marker with a title line only, and text
\* without a marker
MarkedBlocks ==
    { <<MARK3, SP, W1, NL, W2, NL>>,
      <<MARK, SP, W2, NL, W1, NL>>,
      <<MARK3, NL>>,
      <<MARK, SP, W1, NL>>,
      <<W1, NL, W2, NL>> }

NumberingInit ==
    /\ rawText \in TextsOf(MarkedBlocks, MaxMarked)
    /\ characterDNA \in Characters
    /\ parsePc = "ready"
    /\ parsed = NoStory
    /\ storyboard = NoBoard
    /\ GenIdle
    /\ ProbeOff
    /\ BuildOff

NumberingSpec == NumberingInit /\ [][Parse]_vars

(***************************************************************************)
(* generateStory                                                           *)
(***************************************************************************)
\* the texts the model client answers with
EmptyText      == <<>>
ShortText      == <<W1>>
WellFormedText == <<MARK, SP, W1, NL, W2, DOT, NL, MARK, SP, W2, NL, W1, DOT, NL,
                    MARK, SP, W1, NL, W1, DOT, NL, MARK, SP, W2, NL, W2, DOT>>
PlainText      == <<W1, DOT, SP, W2, DOT>>
GappedText     == <<MARK, NL, MARK, NL, W1>>

ModelTexts == {EmptyText, ShortText, WellFormedText, PlainText, GappedText}

Genre == "fantasy"

TimeoutError == ErrorOf(TimeoutMessage)

\* lines 63-77: the story built when parseStoryIntoScenes throws
EmergencyStory(storyText, dna) ==
    LET head == Substring(storyText, Min(500, StrLen(storyText))) \o <<"...">>
    IN  Story(dna,
              << [ id               |-> "scene_1",
                   number           |-> 1,
                   title            |-> <<"The Adventure Begins">>,
                   content          |-> head,
                   description      |-> head,
                   characterName    |-> dna.name,
                   storyboardPrompt |-> <<dna.name, " begins an adventure, ">>
                                           \o Substring(storyText, 100) ] >>,
              1, TRUE, FALSE)

\* lines 54-79
ParsedStory(storyText, dna) ==
    IF parseStoryIntoScenesThrows(storyText, dna)
    THEN EmergencyStory(storyText, dna)
    ELSE parseStoryIntoScenes(storyText, dna)

\* faulty variant: the attempt budget is reported instead of the current attempt
GenerationResultMaxAttempt(storyText, dna, n) ==
    LET parsedStory == ParsedStory(storyText, dna)
    IN  [ kind     |-> "return",
          success  |-> TRUE,
          story    |-> parsedStory,
          rawText  |-> storyText,
          metadata |-> [ genre             |-> Genre,
                         character         |-> dna.name,
                         estimatedReadTime |-> (StrLen(storyText) + 999) \div 1000,
                         sceneCount        |-> Len(parsedStory.scenes),
                         generatedBy       |-> "gemini-2.0-flash",
                         attempt           |-> maxRetries ] ]

\* faulty variant: an emergency-fallback story is reported as a failure
GenerationResultFailsOnEmergency(storyText, dna, n) ==
    LET parsedStory == ParsedStory(storyText, dna)
    IN  [ kind     |-> "return",
          success  |-> ~parsedStory.emergencyFallback,
          story    |-> parsedStory,
          rawText  |-> storyText,
          metadata |-> [ genre             |-> Genre,
                         character         |-> dna.name,
                         estimatedReadTime |-> (StrLen(storyText) + 999) \div 1000,
                         sceneCount        |-> Len(parsedStory.scenes),
                         generatedBy       |-> "gemini-2.0-flash",
                         attempt           |-> n ] ]

\* lines 83-95
GenerationResult(storyText, dna, n) ==
    LET parsedStory == ParsedStory(storyText, dna)
    IN  [ kind     |-> "return",
          success  |-> TRUE,
          story    |-> parsedStory,
          rawText  |-> storyText,
          metadata |-> [ genre             |-> Genre,
                         character         |-> dna.name,
                         estimatedReadTime |-> (StrLen(storyText) + 999) \div 1000,
                         sceneCount        |-> Len(parsedStory.scenes),
                         generatedBy       |-> "gemini-2.0-flash",
                         attempt           |-> n ] ]

\* faulty variant: every failure below the budget is retried, retryable or not
RetryAlways(n, error) == n # maxRetries

\* faulty variant: the budget test is dropped, retryable failures are retried for ever
RetryWhileRetryable(n, error) == isRetryableError(error)

\* whether the catch block retries: lines 100-102
RetryDecision(n, error) == ~(n = maxRetries \/ ~isRetryableError(error))

\* faulty variant: starting an attempt cancels the calls of the earlier attempts
\* that are still outstanding
StartAttemptCancelsLosers(n) ==
    /\ attempt' = n
    /\ storyPrompt' = buildStoryPrompt(UserPrompt, Genre, characterDNA, options)
    /\ call' = [a \in Attempts |->
                   IF a = n THEN [NoCall EXCEPT !.st = "pending"]
                   ELSE IF call[a].st = "pending"
                        THEN [call[a] EXCEPT !.st = "rejected"]
                        ELSE call[a]]
    /\ timer' = [timer EXCEPT ![n] = "armed"]
    /\ race' = [race EXCEPT ![n] = "pending"]
    /\ pc' = "race"

\* top of the loop body: the prompt is built, the model call issued with it, its
\* timer armed, the race awaited
StartAttempt(n) ==
    /\ attempt' = n
    /\ storyPrompt' = buildStoryPrompt(UserPrompt, Genre, characterDNA, options)
    /\ call' = [call EXCEPT ![n] = [NoCall EXCEPT !.st = "pending"]]
    /\ timer' = [timer EXCEPT ![n] = "armed"]
    /\ race' = [race EXCEPT ![n] = "pending"]
    /\ pc' = "race"

\* faulty variant: the flag is not set before generateStory returns
OnSuccessParsingPending(storyText, newCall) ==
    /\ call' = newCall
    /\ race' = [race EXCEPT ![attempt] = "model"]
    /\ guardTimer' = "armed"
    /\ parsingComplete' = FALSE
    /\ result' = GenerationResult(storyText, characterDNA, attempt)
    /\ pc' = "returned"
    /\ UNCHANGED <<attempt, timer, delayTimer, delays, uncaught>>

\* the rest of the try block after the race resolved with the model's response
OnSuccess(storyText, newCall) ==
    /\ call' = newCall
    /\ race' = [race EXCEPT ![attempt] = "model"]
    /\ guardTimer' = "armed"
    /\ parsingComplete' = TRUE
    /\ result' = GenerationResult(storyText, characterDNA, attempt)
    /\ pc' = "returned"
    /\ UNCHANGED <<attempt, timer, delayTimer, delays, uncaught>>

\* faulty variant: the delay is started before the test that ends the call
OnFailureDelayFirst(error, by) ==
    /\ race' = [race EXCEPT ![attempt] = by]
    /\ delayTimer' = "armed"
    /\ delays' = delays + 1
    /\ IF isRetryableErrorThrows(error)
       THEN /\ pc' = "thrown"
            /\ result' = [kind |-> "throw", name |-> "TypeError", message |-> <<>>]
       ELSE IF ~(attempt = maxRetries \/ ~isRetryableError(error))
       THEN /\ pc' = "delay"
            /\ UNCHANGED result
       ELSE /\ pc' = "thrown"
            /\ result' = [kind |-> "throw", name |-> "Error",
                          message |-> TerminalMessage(attempt, error.message)]
    /\ UNCHANGED <<attempt, guardTimer, parsingComplete, uncaught>>

\* the catch block after the race rejected with error; by names what settled the race
OnFailure(error, by) ==
    /\ race' = [race EXCEPT ![attempt] = by]
    /\ IF isRetryableErrorThrows(error)
       THEN /\ pc' = "thrown"
            /\ result' = [kind |-> "throw", name |-> "TypeError", message |-> <<>>]
            /\ UNCHANGED <<delayTimer, delays>>
       ELSE IF RetryDecision(attempt, error)
       THEN /\ pc' = "delay"
            /\ delayTimer' = "armed"
            /\ delays' = delays + 1
            /\ UNCHANGED result
       ELSE /\ pc' = "thrown"
            /\ result' = [kind |-> "throw", name |-> "Error",
                          message |-> TerminalMessage(attempt, error.message)]
            /\ UNCHANGED <<delayTimer, delays>>
    /\ UNCHANGED <<attempt, guardTimer, parsingComplete, uncaught>>

\* generateStory is called: first iteration up to the await of the race
GenerateStory ==
    /\ pc = "idle"
    /\ StartAttempt(1)
    /\ UNCHANGED <<characterDNA, parseVars, probeVars, panelVars, options, delayTimer, delays, guardTimer,
                   parsingComplete, uncaught, result>>

\* faulty variant: a response is processed whichever attempt's call delivers it,
\* as if all attempts shared one pending race
ModelSucceedsAnyAttempt(a, storyText) ==
    /\ call[a].st = "pending"
    /\ LET newCall == [call EXCEPT ![a] = [@ EXCEPT !.st = "resolved", !.text = storyText]]
       IN  IF pc = "race"
           THEN OnSuccess(storyText, newCall)
           ELSE call' = newCall /\ UNCHANGED <<pc, attempt, timer, race, delayTimer, delays,
                                                guardTimer, parsingComplete, uncaught, result>>
    /\ UNCHANGED <<characterDNA, parseVars, probeVars, buildVars>>

\* the model call of attempt a resolves with a response carrying storyText
ModelSucceeds(a, storyText) ==
    /\ call[a].st = "pending"
    /\ LET newCall == [call EXCEPT ![a] = [@ EXCEPT !.st = "resolved", !.text = storyText]]
       IN  IF race[a] = "pending"
           THEN OnSuccess(storyText, newCall)
           ELSE call' = newCall /\ UNCHANGED <<pc, attempt, timer, race, delayTimer, delays,
                                                guardTimer, parsingComplete, uncaught, result>>
    /\ UNCHANGED <<characterDNA, parseVars, probeVars, buildVars>>

\* the model call of attempt a rejects with error
ModelFails(a, error) ==
    /\ call[a].st = "pending"
    /\ call' = [call EXCEPT ![a] = [@ EXCEPT !.st = "rejected", !.error = error]]
    /\ IF race[a] = "pending"
       THEN OnFailure(error, "modelError") /\ UNCHANGED timer
       ELSE UNCHANGED <<pc, attempt, timer, race, delayTimer, delays,
                        guardTimer, parsingComplete, uncaught, result>>
    /\ UNCHANGED <<characterDNA, parseVars, probeVars, buildVars>>

\* faulty variant: the timer's rejection is acted on even after the race was decided
TimerFiresUnconditional(a) ==
    /\ timer[a] = "armed"
    /\ \A b \in Attempts : b < a => timer[b] # "armed"
    /\ timer' = [timer EXCEPT ![a] = "fired"]
    /\ OnFailure(TimeoutError, "timeout")
    /\ UNCHANGED <<call, characterDNA, parseVars, probeVars, buildVars>>

\* the requestTimeout timer of attempt a fires; timers of one duration fire in
\* the order they were armed
TimerFires(a) ==
    /\ timer[a] = "armed"
    /\ \A b \in Attempts : b < a => timer[b] # "armed"
    /\ timer' = [timer EXCEPT ![a] = "fired"]
    /\ IF race[a] = "pending"
       THEN OnFailure(TimeoutError, "timeout") /\ UNCHANGED call
       ELSE UNCHANGED <<pc, attempt, call, race, delayTimer, delays,
                        guardTimer, parsingComplete, uncaught, result>>
    /\ UNCHANGED <<characterDNA, parseVars, probeVars, buildVars>>

\* the delay elapsed: attempt++, the loop test, and the next iteration up to the
\* await of the race; a loop that ends returns undefined (line 112)
DelayElapses ==
    /\ pc = "delay"
    /\ delayTimer = "armed"
    /\ delayTimer' = "none"
    /\ IF attempt + 1 <= maxRetries
       THEN StartAttempt(attempt + 1) /\ UNCHANGED result
       ELSE /\ attempt' = attempt + 1
            /\ pc' = "returned"
            /\ result' = [kind |-> "undefined"]
            /\ UNCHANGED <<call, timer, race, storyPrompt>>
    /\ UNCHANGED <<characterDNA, parseVars, probeVars, panelVars, options, delays, guardTimer, parsingComplete, uncaught>>

\* the callback of the parsing guard: throws unless parsingComplete
GuardFires ==
    /\ guardTimer = "armed"
    /\ guardTimer' = "fired"
    /\ uncaught' = (uncaught \/ ~parsingComplete)
    /\ UNCHANGED <<characterDNA, parseVars, probeVars, buildVars, pc, attempt, call, timer, race, delayTimer,
                   delays, parsingComplete, result>>

Init ==
    /\ characterDNA \in Characters
    /\ ParseOff
    /\ GenIdle
    /\ ProbeOff
    /\ BuildOff

Next ==
    \/ GenerateStory
    \/ \E a \in Attempts, t \in ModelTexts : ModelSucceeds(a, t)
    \/ \E a \in Attempts, e \in ModelErrors : ModelFails(a, e)
    \/ \E a \in Attempts : TimerFires(a)
    \/ DelayElapses
    \/ GuardFires

Spec == Init /\ [][Next]_vars

\* generateStory with its timers running, for a model client that answers with
\* one of two texts, rejects with a retryable error, a non-retryable error or a
\* value without message, or stays silent
FairNext ==
    \/ GenerateStory
    \/ \E a \in Attempts, t \in {WellFormedText, PlainText} : ModelSucceeds(a, t)
    \/ \E a \in Attempts, e \in {ErrorOf(Msg503), ErrorOf(MsgInvalidKey), NoMessageError} :
          ModelFails(a, e)
    \/ \E a \in Attempts : TimerFires(a)
    \/ DelayElapses
    \/ GuardFires

\* an armed requestTimeout timer (line 24) and an armed delay timer (line 131)
\* eventually run their callbacks; the model client is under no obligation to
\* answer
FairSpec ==
    /\ Init
    /\ [][FairNext]_vars
    /\ WF_vars(\E a \in Attempts : TimerFires(a))
    /\ WF_vars(DelayElapses)

(***************************************************************************)
(* generateStoryboard, applied to the scenes of a parsed Story.            *)
(***************************************************************************)
\* the style argument: given, or left out (style = 'cartoon' by default)
Styles == {<<"cartoon">>, <<"watercolor">>, <<"">>, UNDEFINED}

\* faulty variant: the description is read instead of the content
generateStoryboardThrowsOnDescription(scene, style) == scene.description = UNDEFINED

\* scene.content.substring throws a TypeError when the scene has no content;
\* the catch block throws it again
generateStoryboardThrows(scene, style) == scene.content = UNDEFINED

generateStoryboard(scene, style) ==
    LET st == IF style = UNDEFINED THEN <<"cartoon">> ELSE style
        storyboardPrompt ==
            <<"Create a detailed storyboard image for this scene: ", "Title: ">>
            \o scene.title \o <<"Character: ", scene.characterName, "Description: ">>
            \o Substring(scene.content, 300)
            \o <<"Style: ">> \o st
            \o <<" storyboard illustration, clear composition, good for animation reference",
                 "Requirements: ", "- Show the key moment of the scene",
                 "- Include the character prominently", "- Clear visual storytelling",
                 "- Professional storyboard quality", "- ">> \o st \o <<" art style">>
    IN  [ prompt   |-> storyboardPrompt,
          sceneId  |-> scene.id,
          imageUrl |-> JsNull ]

MaxBoardParts == 3

BoardTexts ==
    ModelTexts \cup TextsOf(SceneBlocks, MaxBoardParts)
               \cup TextsOf(ParagraphBlocks, MaxBoardParts)

BoardInit ==
    /\ rawText \in BoardTexts
    /\ characterDNA \in Characters
    /\ parsePc = "ready"
    /\ parsed = NoStory
    /\ storyboard = NoBoard
    /\ GenIdle
    /\ ProbeOff
    /\ BuildOff

\* one call of generateStoryboard on the scene at position i of the Story
GenerateStoryboard(i, style) ==
    /\ parsePc = "returned"
    /\ i \in 1..Len(parsed.scenes)
    /\ storyboard' =
          IF generateStoryboardThrows(parsed.scenes[i], style)
          THEN [kind |-> "throw", arg |-> i, style |-> style]
          ELSE [kind |-> "return", arg |-> i, style |-> style,
                value |-> generateStoryboard(parsed.scenes[i], style)]
    /\ UNCHANGED <<characterDNA, rawText, parsePc, parsed, genVars, probeVars, buildVars>>

BoardNext ==
    \/ Parse
    \/ \E i \in 1..4, style \in Styles : GenerateStoryboard(i, style)

BoardSpec == BoardInit /\ [][BoardNext]_vars

(***************************************************************************)
(* checkAvailability                                                       *)
(***************************************************************************)
\* further messages the model client fails the test call with
MsgFetchFailed  == <<"f", "e", "t", "c", "h", " ", "f", "a", "i", "l", "e", "d">>
MsgTooMany      == <<"4", "2", "9", " ", "T", "o", "o", " ", "M", "a", "n", "y", " ", "R", "e", "q", "u", "e", "s", "t", "s">>
MsgDeadline     == <<"D", "e", "a", "d", "l", "i", "n", "e", " ", "e", "x", "c", "e", "e", "d", "e", "d">>
MsgQuotaUpper   == <<"Q", "U", "O", "T", "A", " ", "E", "X", "C", "E", "E", "D", "E", "D">>

ProbeErrors ==
    ModelErrors \cup {ErrorOf(m) : m \in {MsgFetchFailed, MsgTooMany, MsgDeadline, MsgQuotaUpper}}

\* 'Gemini availability check timed out'
ProbeTimeoutMessage ==
    <<"G", "e", "m", "i", "n", "i", " ", "a", "v", "a", "i", "l", "a", "b", "i", "l", "i", "t", "y", " ", "c", "h", "e", "c", "k", " ", "t", "i", "m", "e", "d", " ", "o", "u", "t">>

ProbeTimeoutError == ErrorOf(ProbeTimeoutMessage)

\* lines 149-155: the race resolved with the test result, which is not read
OnProbeSuccess ==
    /\ probeRace' = "model"
    /\ probePc' = "returned"
    /\ report' = [ kind      |-> "return",
                   available |-> TRUE,
                   model     |-> "gemini-2.0-flash",
                   message   |-> "Gemini AI is available" ]

\* lines 156-164: the catch block; isRetryableError throws out of it when the
\* rejection value has no message, and checkAvailability then rejects
OnProbeFailure(error, by) ==
    /\ probeRace' = by
    /\ IF isRetryableErrorThrows(error)
       THEN /\ probePc' = "thrown"
            /\ report' = [kind |-> "throw", name |-> "TypeError"]
       ELSE /\ probePc' = "returned"
            /\ report' = [ kind      |-> "return",
                           available |-> FALSE,
                           model     |-> "gemini-2.0-flash",
                           error     |-> error.message,
                           retryable |-> isRetryableError(error) ]

\* faulty variant: the probe's call is counted as an attempt of generateStory
CheckAvailabilityCountsAttempt ==
    /\ probePc = "idle"
    /\ probePc' = "race"
    /\ probeCall' = [NoCall EXCEPT !.st = "pending"]
    /\ probeTimer' = "armed"
    /\ probeRace' = "pending"
    /\ attempt' = IF attempt < maxRetries THEN attempt + 1 ELSE attempt
    /\ UNCHANGED <<characterDNA, parseVars, buildVars, report, pc, call, timer, race,
                   delayTimer, delays, guardTimer, parsingComplete, uncaught, result>>

\* checkAvailability is called: the test call is issued, the timer armed, the
\* race awaited
CheckAvailability ==
    /\ probePc = "idle"
    /\ probePc' = "race"
    /\ probeCall' = [NoCall EXCEPT !.st = "pending"]
    /\ probeTimer' = "armed"
    /\ probeRace' = "pending"
    /\ UNCHANGED <<characterDNA, parseVars, genVars, buildVars, report>>

\* the test call resolves
ProbeResolves ==
    /\ probeCall.st = "pending"
    /\ probeCall' = [probeCall EXCEPT !.st = "resolved"]
    /\ IF probeRace = "pending" THEN OnProbeSuccess
       ELSE UNCHANGED <<probePc, probeRace, report>>
    /\ UNCHANGED <<characterDNA, parseVars, genVars, buildVars, probeTimer>>

\* the test call rejects with error
ProbeRejects(error) ==
    /\ probeCall.st = "pending"
    /\ probeCall' = [probeCall EXCEPT !.st = "rejected", !.error = error]
    /\ IF probeRace = "pending" THEN OnProbeFailure(error, "modelError")
       ELSE UNCHANGED <<probePc, probeRace, report>>
    /\ UNCHANGED <<characterDNA, parseVars, genVars, buildVars, probeTimer>>

\* the timeoutDuration timer fires
ProbeTimerFires ==
    /\ probeTimer = "armed"
    /\ probeTimer' = "fired"
    /\ IF probeRace = "pending" THEN OnProbeFailure(ProbeTimeoutError, "timeout")
       ELSE UNCHANGED <<probePc, probeRace, report>>
    /\ UNCHANGED <<characterDNA, parseVars, genVars, buildVars, probeCall>>

ProbeInit ==
    /\ characterDNA \in Characters
    /\ ParseOff
    /\ GenIdle
    /\ probePc = "idle"
    /\ probeCall = NoCall
    /\ probeTimer = "none"
    /\ probeRace = "none"
    /\ report = [kind |-> "none"]
    /\ BuildOff

ProbeNext ==
    \/ CheckAvailability
    \/ ProbeResolves
    \/ \E e \in ProbeErrors : ProbeRejects(e)
    \/ ProbeTimerFires

ProbeSpec == ProbeInit /\ [][ProbeNext]_vars


(***************************************************************************)
(* checkAvailability and generateStory on one generator, interleaved.      *)
(***************************************************************************)
\* what the model client answers or fails with when both operations run
JointErrors == {ErrorOf(Msg503), ErrorOf(MsgInvalidKey)}

JointInit ==
    /\ characterDNA \in Characters
    /\ ParseOff
    /\ GenIdle
    /\ BuildOff
    /\ probePc = "idle"
    /\ probeCall = NoCall
    /\ probeTimer = "none"
    /\ probeRace = "none"
    /\ report = [kind |-> "none"]

JointNext ==
    \/ GenerateStory
    \/ \E a \in Attempts, t \in {WellFormedText, PlainText} : ModelSucceeds(a, t)
    \/ \E a \in Attempts, e \in JointErrors : ModelFails(a, e)
    \/ \E a \in Attempts : TimerFires(a)
    \/ DelayElapses
    \/ GuardFires
    \/ CheckAvailability
    \/ ProbeResolves
    \/ \E e \in JointErrors : ProbeRejects(e)
    \/ ProbeTimerFires

JointSpec == JointInit /\ [][JointNext]_vars

(***************************************************************************)
(* generateStoryboardPrompt applied to bounded contents.                   *)
(***************************************************************************)
MaxWords == 2

\* contents of up to n scene words, separated by spaces
RECURSIVE ContentsUpTo(_)
ContentsUpTo(n) ==
    IF n = 0 THEN {<<>>}
    ELSE LET prev == ContentsUpTo(n - 1)
         IN  prev \cup {IF c = <<>> THEN <<w>> ELSE c \o <<SP, w>> : c \in prev, w \in SceneWords}

ClassifyInit ==
    /\ panelContent \in ContentsUpTo(MaxWords)
    /\ panel = <<>>
    /\ characterDNA \in Characters
    /\ options = NoOptions
    /\ storyPrompt = <<>>
    /\ ParseOff
    /\ GenIdle
    /\ ProbeOff

\* one call of generateStoryboardPrompt
GenerateStoryboardPrompt ==
    /\ panel = <<>>
    /\ ~generateStoryboardPromptThrows(characterDNA)
    /\ panel' = generateStoryboardPrompt(<<"Scene 1">>, panelContent, characterDNA)
    /\ UNCHANGED <<panelContent, characterDNA, options, storyPrompt, parseVars, genVars, probeVars>>

ClassifySpec == ClassifyInit /\ [][GenerateStoryboardPrompt]_vars

(***************************************************************************)
(* buildStoryPrompt applied to bounded options.                            *)
(***************************************************************************)
\* the options objects: tone as the client sends it (one of its six tones, or
\* the empty string of the untouched form), left out, null, or another string;
\* length likewise; includeVoice and includeVideo true, false, or left out
OptionSets ==
    [ tone : { toneGuidance[i].key : i \in 1..Len(toneGuidance) }
             \cup { <<>>, UNDEFINED, JsNull,
                    <<"s", "p", "o", "o", "k", "y">>,
                    <<"D", "r", "a", "m", "a", "t", "i", "c">>,
                    <<"c", "o", "n", "s", "t", "r", "u", "c", "t", "o", "r">> },
      length : { lengthGuidance[i].key : i \in 1..Len(lengthGuidance) }
               \cup { <<>>, UNDEFINED,
                      <<"e", "p", "i", "c">>,
                      <<"t", "o", "S", "t", "r", "i", "n", "g">> },
      includeVoice : {"true", "false", "undefined"},
      includeVideo : {"true", "false", "undefined"} ]

PromptInit ==
    /\ options \in OptionSets
    /\ storyPrompt = <<>>
    /\ characterDNA \in Characters
    /\ panelContent = <<>>
    /\ panel = <<>>
    /\ ParseOff
    /\ GenIdle
    /\ ProbeOff

\* one call of buildStoryPrompt
BuildStoryPrompt ==
    /\ storyPrompt = <<>>
    /\ storyPrompt' = buildStoryPrompt(UserPrompt, Genre, characterDNA, options)
    /\ UNCHANGED <<options, characterDNA, panelVars, parseVars, genVars, probeVars>>

PromptSpec == PromptInit /\ [][BuildStoryPrompt]_vars

(***************************************************************************)
(* Properties of generateStory.                                            *)
(***************************************************************************)
\* the messages of ModelMessages that hold one of the eight keywords in some
\* letter case, and those that hold none
RetryableExamples ==
    { MsgRateLimit, MsgOverloaded, MsgUnavailable, Msg503, MsgTemporarily, MsgQuota,
      MsgTimedOut, MsgTimeout }

NonRetryableExamples == { MsgInvalidKey, MsgRateLimited, MsgTimeOut, MsgEmpty }

\* the model calls issued so far
NumCalls == Cardinality({a \in Attempts : call[a].st # "none"})

\* attempt a failed because its model call rejected with message m
FailedWith(a, m) ==
    race[a] = "modelError" /\ call[a].error.hasMessage /\ call[a].error.message = m

\* attempt a failed with a retryable error: a listed message or the timeout
FailedRetryably(a) ==
    \/ race[a] = "timeout"
    \/ \E m \in RetryableExamples : FailedWith(a, m)

\* the message of the error attempt a failed with
CauseOf(a) == IF race[a] = "timeout" THEN TimeoutMessage ELSE call[a].error.message

\* attempt a was followed by a retry: its delay was started
Retried(a) ==
    \/ a < maxRetries /\ call[a + 1].st # "none"
    \/ pc = "delay" /\ attempt = a

Returned(n) ==
    /\ pc = "returned"
    /\ result.kind = "return"
    /\ result.success = TRUE
    /\ result.metadata.attempt = n

\* C1: when the model client fails k times (k = 0, 1, 2) with a retryable
\* message and then succeeds, generateStory returns success = true with
\* metadata.attempt = k + 1
C1_RetryThenSuccess ==
    \A k \in 0..(maxRetries - 1) :
        ( /\ \A b \in 1..k : \E m \in RetryableExamples : FailedWith(b, m)
          /\ race[k + 1] = "model" )
        => Returned(k + 1)

\* two "rate limit" failures, then a success reported as attempt 3
C1_Witness ==
    /\ FailedWith(1, MsgRateLimit)
    /\ FailedWith(2, MsgRateLimit)
    /\ race[3] = "model"
    /\ Returned(3)

\* C2: a model error whose message matches no retryable keyword ends
\* generateStory on the attempt n where it occurs: a terminal error is thrown,
\* no delay is started and no further model call is issued (one call when n = 1)
C2_NonRetryableEndsCall ==
    \A n \in Attempts : \A m \in NonRetryableExamples :
        FailedWith(n, m)
        => /\ pc = "thrown"
           /\ result.kind = "throw"
           /\ result.name = "Error"
           /\ attempt = n
           /\ NumCalls = n
           /\ delays = n - 1
           /\ delayTimer # "armed"
           /\ \A b \in Attempts : b > n => call[b].st = "none" /\ timer[b] = "none"

\* "invalid api key" on the first attempt: one model call, thrown
C2_Witness ==
    /\ FailedWith(1, MsgInvalidKey)
    /\ pc = "thrown"
    /\ NumCalls = 1

\* C3: when all 3 attempts fail with retryable errors, exactly 3 model calls
\* are issued and generateStory throws an error whose message holds the attempt
\* count and the last underlying message; a call that ends has either returned
\* a result with success = true or thrown, never returned undefined or
\* success = false
C3_Exhaustion ==
    /\ (\A a \in Attempts : FailedRetryably(a))
       => /\ pc = "thrown"
          /\ result.kind = "throw"
          /\ NumCalls = maxRetries
          /\ IncludesChars(result.message, <<"a", "f", "t", "e", "r", " ">> \o <<ToString(maxRetries)>> \o <<" ", "a", "t", "t", "e", "m", "p", "t", "s">>)
          /\ IncludesChars(result.message, CauseOf(maxRetries))
    /\ pc = "returned" => result.kind = "return" /\ result.success = TRUE
    /\ pc = "thrown" => result.kind = "throw"
    /\ pc \in {"idle", "race", "delay"} => result.kind = "none"

\* a model error, a timeout and a model error, all retryable: thrown after 3 calls
C3_Witness ==
    /\ \E m \in RetryableExamples : FailedWith(1, m)
    /\ race[2] = "timeout"
    /\ FailedWith(3, MsgQuota)
    /\ pc = "thrown"
    /\ NumCalls = 3

\* the eight keywords, as the claim lists them
EightKeywords ==
    { <<"o", "v", "e", "r", "l", "o", "a", "d", "e", "d">>,
      <<"s", "e", "r", "v", "i", "c", "e", " ", "u", "n", "a", "v", "a", "i", "l", "a", "b", "l", "e">>,
      <<"5", "0", "3">>,
      <<"t", "e", "m", "p", "o", "r", "a", "r", "i", "l", "y", " ", "u", "n", "a", "v", "a", "i", "l", "a", "b", "l", "e">>,
      <<"r", "a", "t", "e", " ", "l", "i", "m", "i", "t">>,
      <<"q", "u", "o", "t", "a", " ", "e", "x", "c", "e", "e", "d", "e", "d">>,
      <<"t", "i", "m", "e", "d", " ", "o", "u", "t">>,
      <<"t", "i", "m", "e", "o", "u", "t">> }

SameLetter(c, d) ==
    \/ c = d
    \/ \E i \in 1..Len(UpperCase) : {c, d} = {UpperCase[i], LowerCase[i]}

\* m holds kw, letter case ignored
HoldsIgnoringCase(m, kw) ==
    \E i \in 0..(Len(m) - Len(kw)) : \A j \in 1..Len(kw) : SameLetter(m[i + j], kw[j])

MaxFragments == 3

Fragments ==
    { <<"R", "a", "t", "e">>,
      <<" ">>,
      <<"l", "i", "m", "i", "t">>,
      <<"T", "I", "M", "E", "D">>,
      <<"o", "u", "t">>,
      <<"t", "i", "m", "e">>,
      <<"5", "0", "3">>,
      <<"-">> }

RECURSIVE MessagesUpTo(_)
MessagesUpTo(n) ==
    IF n = 0 THEN {<<>>}
    ELSE LET prev == MessagesUpTo(n - 1)
         IN  prev \cup {m \o f : m \in prev, f \in Fragments}

\* messages put together from fragments of keywords, and the client's messages
SampleMessages == MessagesUpTo(MaxFragments) \cup ModelMessages

\* the sample messages isRetryableError accepts
ClassifiedRetryable ==
    {m \in SampleMessages \cup {TimeoutMessage} : isRetryableError(ErrorOf(m))}

\* the sample messages that hold one of the eight keywords, letter case ignored
HoldingKeyword ==
    {m \in SampleMessages \cup {TimeoutMessage} :
        \E kw \in EightKeywords : HoldsIgnoringCase(m, kw)}

\* C4: isRetryableError is true exactly when the message, letter case ignored,
\* holds one of the eight keywords; a failed attempt is retried only when the
\* predicate is true of its error and its number is below 3
C4_RetryableClassification ==
    /\ ClassifiedRetryable = HoldingKeyword
    /\ \A a \in Attempts : \A m \in ModelMessages :
          FailedWith(a, m)
          => (Retried(a) <=> (a < maxRetries /\ m \in HoldingKeyword))
    /\ \A a \in Attempts :
          Retried(a) => a < maxRetries /\ CauseOf(a) \in ClassifiedRetryable

\* a failure with the mixed-case "Rate Limit hit" was retried
C4_Witness ==
    /\ FailedWith(1, MsgRateLimit)
    /\ Retried(1)
    /\ call[2].st = "pending"

\* C5: when the timer of an attempt fires before its model call settled, the
\* attempt fails with a message holding "timed out after 45 seconds"; the
\* failure is retryable, so it is retried when the attempt number is below 3,
\* and 3 timed-out attempts end in the terminal error
C5_AttemptTimeout ==
    /\ \A a \in Attempts :
          timer[a] = "fired" /\ call[a].st = "pending" => race[a] = "timeout"
    /\ \A a \in Attempts :
          race[a] = "timeout"
          => /\ IncludesChars(CauseOf(a), <<"t", "i", "m", "e", "d", " ", "o", "u", "t", " ", "a", "f", "t", "e", "r", " ">> \o <<"45">> \o <<" ", "s", "e", "c", "o", "n", "d", "s">>)
             /\ a < maxRetries => Retried(a)
             /\ a = maxRetries => /\ pc = "thrown"
                         /\ result.kind = "throw"
                         /\ IncludesChars(result.message, <<"t", "i", "m", "e", "d", " ", "o", "u", "t", " ", "a", "f", "t", "e", "r", " ">> \o <<"45">> \o <<" ", "s", "e", "c", "o", "n", "d", "s">>)
    /\ (\A a \in Attempts : race[a] = "timeout")
       => pc = "thrown" /\ NumCalls = maxRetries /\ IncludesChars(result.message, <<"a", "f", "t", "e", "r", " ">> \o <<ToString(maxRetries)>> \o <<" ", "a", "t", "t", "e", "m", "p", "t", "s">>)

\* the model never answered: three timeouts, three calls still pending, thrown
C5_Witness ==
    /\ \A a \in Attempts : race[a] = "timeout" /\ call[a].st = "pending"
    /\ pc = "thrown"

\* a settlement that comes after the race of its attempt was decided
LateTimer(a) == timer[a] = "armed" /\ timer'[a] = "fired" /\ race[a] # "pending"
LateModel(a) == call[a].st = "pending" /\ call'[a].st # "pending" /\ race[a] # "pending"

\* C6: the first of the model call and the timer to settle decides the
\* attempt; the later settlement of the other changes nothing: not the decided
\* race, not the returned result, and it starts no retry and raises no error
C6_RaceSemantics ==
    [][ /\ \A a \in Attempts :
              /\ race[a] \notin {"none", "pending"} => race'[a] = race[a]
              /\ race[a] = "pending" /\ race'[a] = "model"
                    => call[a].st = "pending" /\ call'[a].st = "resolved"
              /\ race[a] = "pending" /\ race'[a] = "modelError"
                    => call[a].st = "pending" /\ call'[a].st = "rejected"
              /\ race[a] = "pending" /\ race'[a] = "timeout"
                    => timer[a] = "armed" /\ timer'[a] = "fired"
        /\ (\E a \in Attempts : LateTimer(a) \/ LateModel(a))
              => UNCHANGED <<pc, attempt, race, result, delays, delayTimer, guardTimer,
                             uncaught>>
        /\ pc \in {"returned", "thrown"} => UNCHANGED <<pc, attempt, result>>
      ]_vars

\* the model call won, generateStory returned, and the timer fired afterwards
C6_Witness ==
    /\ pc = "returned"
    /\ race[attempt] = "model"
    /\ timer[attempt] = "fired"
    /\ result.rawText = call[attempt].text

\* C7: the model call of attempt n + 1 is issued only after the race of
\* attempt n settled with a retryable failure and the delay elapsed; one delay
\* separates consecutive attempts, and none follows a success or the failure
\* that ends the call
C7_SequentialAttempts ==
    /\ [] /\ \A n \in 1..(maxRetries - 1) :
                call[n + 1].st # "none" => FailedRetryably(n) /\ delays >= n
          /\ Cardinality({a \in Attempts : race[a] = "pending"}) <= 1
          /\ pc # "idle" => delays = (attempt - 1) + (IF pc = "delay" THEN 1 ELSE 0)
          /\ delayTimer = "armed" <=> pc = "delay"
          /\ pc \in {"returned", "thrown"} => delays = attempt - 1
    /\ [][ \A n \in 1..(maxRetries - 1) :
              call[n + 1].st = "none" /\ call'[n + 1].st # "none"
              => pc = "delay" /\ delayTimer = "armed" /\ delayTimer' # "armed"
         ]_vars

\* the third attempt is under way after two delays
C7_Witness ==
    /\ pc = "race"
    /\ attempt = 3
    /\ delays = 2
    /\ delayTimer = "none"

C10_SceneNumbering ==
    parsePc = "returned"
    => \A i \in 1..Len(parsed.scenes) :
          /\ parsed.scenes[i].number = i
          /\ parsed.scenes[i].id = "scene_" \o ToString(parsed.scenes[i].number)

\* C11: every Story returned by parse that is not an emergency fallback has
\* exactly 4 scenes and totalScenes = 4, whichever strategy produced its
\* scenes; so a Story returned for a non-empty text has 4 scenes or, in the
\* emergency case, 1 scene, never 0, 2 or 3
C11_FourScenes ==
    parsePc = "returned"
    => /\ ~parsed.emergencyFallback
          => Len(parsed.scenes) = 4 /\ parsed.totalScenes = 4
       /\ StrLen(rawText) > 0
          => \/ Len(parsed.scenes) = 4
             \/ parsed.emergencyFallback /\ Len(parsed.scenes) = 1

\* the results of generateStory, for every text of the model client, in which
\* the counts disagree with the scenes; the story built when the parser raises
\* is taken for itself as well
InconsistentResults ==
    { x \in ModelTexts \X Characters \X Attempts :
        LET r == GenerationResult(x[1], x[2], x[3])
            e == EmergencyStory(x[1], x[2])
        IN  \/ r.story.totalScenes # Len(r.story.scenes)
            \/ r.metadata.sceneCount # Len(r.story.scenes)
            \/ e.totalScenes # Len(e.scenes) }

\* C12: in every Story returned by parse or built by generateStory, the
\* emergency-fallback and fallback-parsed ones included, totalScenes equals the
\* number of scenes, and metadata.sceneCount of a GenerationResult equals the
\* number of scenes of its story
C12_SceneCountConsistency ==
    /\ parsePc = "returned" => parsed.totalScenes = Len(parsed.scenes)
    /\ InconsistentResults = {}

\* the line scan found more than 4 scenes and the Story keeps 4 of them
C12_Witness ==
    /\ parsePc = "returned"
    /\ parsed.fallbackParsed
    /\ Len(LineScanScenes(rawText, characterDNA)) > 4
    /\ Len(parsed.scenes) = 4
    /\ parsed.totalScenes = 4

\* well-marked segments: a marker, a title line and a body
WellMarked ==
    { [title |-> <<W1>>, body |-> <<W2, DOT>>],
      [title |-> <<W2>>, body |-> <<W1, DOT>>] }

MarkedSegment(seg) == <<MARK, SP>> \o seg.title \o <<NL>> \o seg.body \o <<NL>>

\* the text made of the segments segs, in order
RECURSIVE MarkedText(_)
MarkedText(segs) ==
    IF segs = <<>> THEN <<>> ELSE MarkedSegment(Head(segs)) \o MarkedText(Tail(segs))

\* C13: for a text of 4 well-marked scenes parse returns exactly 4 scenes with
\* number 1..4 and id scene_<number>, in input order, the i-th scene carrying
\* the title and the content of the i-th marked segment, with no fallback flag
C13_WellFormedFourScenes ==
    \A segs \in [1..4 -> WellMarked] :
        parsePc = "returned" /\ rawText = MarkedText(segs)
        => /\ Len(parsed.scenes) = 4
           /\ \A i \in 1..4 :
                 /\ parsed.scenes[i].number = i
                 /\ parsed.scenes[i].id = "scene_" \o ToString(i)
                 /\ parsed.scenes[i].title = segs[i].title
                 /\ parsed.scenes[i].content = segs[i].body
           /\ ~parsed.fallbackParsed
           /\ ~parsed.emergencyFallback

\* four well-marked scenes with differing titles were parsed
C13_Witness ==
    /\ parsePc = "returned"
    /\ \E segs \in [1..4 -> WellMarked] :
          /\ rawText = MarkedText(segs)
          /\ segs[1] # segs[2]
          /\ segs[3] # segs[4]
    /\ Len(parsed.scenes) = 4
    /\ parsed.scenes[1].title # parsed.scenes[2].title

\* the number of `SCENE <n>:` markers in a text
RECURSIVE Markers(_)
Markers(s) ==
    IF s = <<>> THEN 0 ELSE (IF Head(s) = MARK THEN 1 ELSE 0) + Markers(Tail(s))

\* the generic continuation scene of position n
IsGenericScene(scene, n, dna) ==
    /\ scene.title = <<"Scene " \o ToString(n)>>
    /\ scene.content = <<dna.name, " continues their adventure with determination and courage.">>

\* C14: for a text of at least 50 characters with fewer than 4 scene markers
\* parse returns exactly 4 scenes, the parsed scenes followed by generic
\* continuation scenes, with number 1..4 strictly increasing
C14_PaddedToFour ==
    parsePc = "returned" /\ StrLen(rawText) >= 50 /\ Markers(rawText) < 4
    => /\ Len(parsed.scenes) = 4
       /\ \A i \in 1..Len(parsed.scenes) : parsed.scenes[i].number = i
       /\ \E k \in 0..Len(parsed.scenes) :
             \A i \in 1..Len(parsed.scenes) :
                 IsGenericScene(parsed.scenes[i], i, characterDNA) <=> i > k

\* the sequences of more than 4 well-marked segments, and their texts
LongMarkedSegs == UNION {[1..n -> WellMarked] : n \in 5..MaxScenes}

LongMarkedTexts == {MarkedText(segs) : segs \in LongMarkedSegs}

\* a marker on a line of its own followed by one line of text, which only the
\* line scan of the fallback strategy takes as a scene
RECURSIVE BareMarkedText(_)
BareMarkedText(bodies) ==
    IF bodies = <<>> THEN <<>>
    ELSE <<MARK, NL, Head(bodies), NL>> \o BareMarkedText(Tail(bodies))

LongBareBodies == UNION {[1..n -> {W1, W2}] : n \in 5..MaxScenes}

LongBareTexts == {BareMarkedText(bodies) : bodies \in LongBareBodies}

C16_ShortTextGuard ==
    parsePc = "returned" /\ StrLen(rawText) < 50
    => /\ Len(parsed.scenes) = 1
       /\ parsed.totalScenes = 1
       /\ parsed.emergencyFallback
       /\ ~parsed.fallbackParsed
       /\ parsed.scenes[1].id = "scene_1"
       /\ parsed.scenes[1].number = 1
       /\ parsed.scenes[1].title = <<"The Adventure Begins">>
       /\ parsed.scenes[1].content =
             IF rawText # <<>> THEN rawText
             ELSE <<characterDNA.name,
                    " embarks on an exciting adventure filled with challenges and discoveries.">>
       /\ parsed.scenes[1].description = parsed.scenes[1].content

\* a text of 49 characters that holds a scene marker comes back whole
C16_Witness ==
    /\ parsePc = "returned"
    /\ StrLen(rawText) = 49
    /\ Markers(rawText) > 0
    /\ parsed.emergencyFallback
    /\ parsed.scenes[1].content = rawText

\* a text without anything the parser takes for a scene marker
Unmarked(s) == \A i \in 1..Len(s) : s[i] \notin {MARK, LMARK}

\* the sentences of a text, in order: the non-blank pieces between terminators
SentencesOf(s) ==
    LET pieces == SelectSeqNonBlank(SplitSentences(s))
    IN  [i \in 1..Len(pieces) |-> Trim(pieces[i])]

\* the contents of the scenes of a Story, put one after the other
RECURSIVE ContentsOf(_)
ContentsOf(scenes) ==
    IF scenes = <<>> THEN <<>>
    ELSE Head(scenes).content \o <<SP>> \o ContentsOf(Tail(scenes))

\* C17: for a text of at least 50 characters without scene markers parse
\* reaches the chunk splitter of the fallback strategy and returns a Story
\* tagged fallbackParsed with at most 4 scenes, whose contents put together
\* hold every sentence of the text once and in the original order
C17_ChunkSplitCoverage ==
    parsePc = "returned" /\ StrLen(rawText) >= 50 /\ Unmarked(rawText)
    => /\ parsed.fallbackParsed
       /\ Len(parsed.scenes) <= 4
       /\ SentencesOf(ContentsOf(parsed.scenes)) = SentencesOf(rawText)

(***************************************************************************)
(* Properties of checkAvailability.                                        *)
(***************************************************************************)
\* the message of the error the probe failed with
ProbeCause == IF probeRace = "timeout" THEN ProbeTimeoutMessage ELSE probeCall.error.message

\* the messages of the probe's errors that hold one of the eight keywords
ProbeRetryable ==
    { m \in {e.message : e \in ProbeErrors} \cup {ProbeTimeoutMessage} :
        \E kw \in EightKeywords : HoldsIgnoringCase(m, kw) }

\* C19: checkAvailability never throws or rejects, whatever the model client
\* does (success, failure with any error value, no answer until the timer
\* fires): it returns a report with available = true and a message when the
\* model call wins the race, and otherwise available = false with the error
\* message and retryable = isRetryableError of that error
C19_ProbeNeverFails ==
    /\ probePc # "thrown"
    /\ probeRace \notin {"none", "pending"}
       => /\ probePc = "returned"
          /\ report.kind = "return"
          /\ report.model = "gemini-2.0-flash"
    /\ probePc = "returned" /\ probeRace = "model"
       => report.available /\ report.message = "Gemini AI is available"
    /\ probePc = "returned" /\ probeRace \in {"modelError", "timeout"}
       => /\ ~report.available
          /\ report.error = ProbeCause
          /\ report.retryable = (ProbeCause \in ProbeRetryable)

(***************************************************************************)
(* Properties of generateStoryboard.                                       *)
(***************************************************************************)
\* the scenes of the stories generateStory builds when the parser raises
\* (lines 63-77), for which generateStoryboard throws or gives a wrong record
BadEmergencyBoards ==
    { x \in ModelTexts \X Characters \X Styles :
        LET scene == EmergencyStory(x[1], x[2]).scenes[1]
            board == generateStoryboard(scene, x[3])
        IN  \/ generateStoryboardThrows(scene, x[3])
            \/ ~IncludesChars(board.prompt, scene.title)
            \/ ~IncludesChars(board.prompt, <<scene.characterName>>)
            \/ board.sceneId # scene.id
            \/ board.imageUrl # JsNull }

\* C20: for every Scene this core produces (parsed, padded, chunk-split or
\* emergency) and every style, generateStoryboard returns without throwing a
\* record whose prompt holds the scene title and the character name, whose
\* sceneId is the scene's id and whose imageUrl is null
C20_StoryboardRequest ==
    /\ storyboard.kind # "none"
       => LET scene == parsed.scenes[storyboard.arg]
          IN  /\ storyboard.kind = "return"
              /\ IncludesChars(storyboard.value.prompt, scene.title)
              /\ IncludesChars(storyboard.value.prompt, <<scene.characterName>>)
              /\ storyboard.value.sceneId = scene.id
              /\ storyboard.value.imageUrl = JsNull
    /\ BadEmergencyBoards = {}

\* a request for a padded scene, which has no description, with the style left out
C20_Witness ==
    /\ storyboard.kind = "return"
    /\ storyboard.style = UNDEFINED
    /\ parsed.scenes[storyboard.arg].description = UNDEFINED
    /\ IsGenericScene(parsed.scenes[storyboard.arg], storyboard.arg, characterDNA)
    /\ IncludesChars(storyboard.value.prompt, <<"cartoon">>)

(***************************************************************************)
(* Properties of the TextClassifier.                                       *)
(***************************************************************************)
\* the rule lists of the three passes in their listed order
ListedSettingRules ==
    << <<{"library", "book"},     "ancient library with books and shelves">>,
       <<{"forest", "tree"},      "mystical forest">>,
       <<{"cave", "underground"}, "mysterious cave">>,
       <<{"castle", "tower"},     "medieval castle">>,
       <<{"city", "street"},      "bustling city street">>,
       <<{"mountain", "peak"},    "mountain landscape">>,
       <<{"ocean", "sea"},        "coastal scene with ocean">> >>

ListedActionRules ==
    << <<{"running", "chase"},      "running or chasing">>,
       <<{"fighting", "battle"},    "in combat stance">>,
       <<{"searching", "looking"},  "searching and investigating">>,
       <<{"climbing", "ascending"}, "climbing">>,
       <<{"flying", "soaring"},     "flying through the air">>,
       <<{"discovering", "found"},  "making a discovery">>,
       <<{"hiding", "sneaking"},    "hiding or sneaking">> >>

ListedMoodRules ==
    << <<{"scared", "afraid", "terrified"},    "scared or worried">>,
       <<{"happy", "excited", "joy"},          "happy and excited">>,
       <<{"angry", "furious", "mad"},          "angry or determined">>,
       <<{"surprised", "shocked", "amazed"},   "surprised and amazed">>,
       <<{"sad", "crying", "upset"},           "sad or emotional">>,
       <<{"curious", "wonder", "investigate"}, "curious and focused">> >>

\* the whole content as one sequence of characters
RECURSIVE ContentChars(_)
ContentChars(content) ==
    IF content = <<>> THEN <<>>
    ELSE Spelling(Head(content)) \o ContentChars(Tail(content))

\* kw occurs in the lower-cased content
Occurs(kw, lowered) == IncludesChars(lowered, Spelling(kw))

\* the label of the first listed rule one of whose keywords occurs, else the default
RECURSIVE FirstListed(_, _, _)
FirstListed(listed, default, lowered) ==
    IF listed = <<>> THEN default
    ELSE IF \E kw \in Head(listed)[1] : Occurs(kw, lowered) THEN Head(listed)[2]
    ELSE FirstListed(Tail(listed), default, lowered)

\* the piece of the prompt that follows the first occurrence of a caption
LabelAfter(p, caption) ==
    p[(CHOOSE i \in 1..Len(p) : p[i] = caption /\ \A j \in 1..(i - 1) : p[j] # caption) + 1]

\* C21: in the prompt generateStoryboardPrompt returns, each of the three labels
\* (setting, action, mood) is the label of the first rule, in the listed order,
\* one of whose keywords occurs in the lower-cased scene content, and the
\* default label of its pass (indoor scene / standing / neutral) when none
\* occurs; each label is a function of the content and of its own rule list
\* alone, so no pass depends on the keywords of the other two
C21_ClassifierRules ==
    panel # <<>> =>
        LET lowered == ToLowerCase(ContentChars(panelContent))
        IN  /\ LabelAfter(panel, "Setting: ")
                 = FirstListed(ListedSettingRules, "indoor scene", lowered)
            /\ LabelAfter(panel, " is ")
                 = FirstListed(ListedActionRules, "standing", lowered)
            /\ LabelAfter(panel, "Mood/Expression: ")
                 = FirstListed(ListedMoodRules, "neutral", lowered)

\* a content whose first word holds the keyword of a later rule (street, and
\* tree inside it) and whose second word holds no setting keyword but one of
\* the action list and, as a part of the word, one of the setting list (sea):
\* the earlier setting rule wins, the action pass reads its own list
C21_Witness ==
    /\ panelContent = <<"Street", SP, "searching">>
    /\ panel # <<>>
    /\ LabelAfter(panel, "Setting: ") = "mystical forest"
    /\ LabelAfter(panel, " is ") = "searching and investigating"
    /\ LabelAfter(panel, "Mood/Expression: ") = "neutral"

(***************************************************************************)
(* Properties of the primary strategy and of the fallback strategy.        *)
(***************************************************************************)
\* the position of the first line break of s, 0 when it has none
FirstBreak(s) ==
    IF \A i \in 1..Len(s) : s[i] # NL THEN 0
    ELSE CHOOSE i \in 1..Len(s) : s[i] = NL /\ \A j \in 1..(i - 1) : s[j] # NL

\* first line of the trimmed segment, trimmed
SegTitle(seg) ==
    LET t == Trim(seg)
    IN  IF FirstBreak(t) = 0 THEN t ELSE Trim(SubSeq(t, 1, FirstBreak(t) - 1))

\* the lines after the first line of the trimmed segment, trimmed
SegContent(seg) ==
    LET t == Trim(seg)
    IN  IF FirstBreak(t) = 0 THEN <<>> ELSE Trim(SubSeq(t, FirstBreak(t) + 1, Len(t)))

Contributes(seg) == Len(SegTitle(seg)) > 0 /\ Len(SegContent(seg)) > 0

\* the contributing segments in their order
RECURSIVE Contributing(_)
Contributing(segs) ==
    IF segs = <<>> THEN <<>>
    ELSE (IF Contributes(Head(segs)) THEN <<Head(segs)>> ELSE <<>>)
         \o Contributing(Tail(segs))

\* C22: for a text of at least 50 characters, every segment of the split on
\* the scene marker, the text before the first marker included, contributes a
\* scene exactly if its title line and its remaining lines are non-empty after
\* trimming; the scenes of the Story are those of the first 4 contributing
\* segments in order, and the Story comes from the fallback strategy exactly
\* when no segment contributes
C22_SegmentRule ==
    (parsePc = "returned" /\ StrLen(rawText) >= MinStoryLength) =>
        LET used == Contributing(SplitOn(rawText, MARK))
        IN  /\ parsed.fallbackParsed <=> (Len(used) = 0)
            /\ Len(used) > 0 =>
                 /\ Len(parsed.scenes) = 4
                 /\ \A k \in 1..4 :
                       IF k <= Len(used)
                       THEN /\ parsed.scenes[k].title = SegTitle(used[k])
                            /\ parsed.scenes[k].content = SegContent(used[k])
                       ELSE IsGenericScene(parsed.scenes[k], k, characterDNA)

\* two lines of text before the first marker: they are the first scene
C22_Witness ==
    /\ parsePc = "returned"
    /\ rawText = <<W1, NL, W2, MARK>>
    /\ ~parsed.fallbackParsed
    /\ parsed.scenes[1].title = <<W1>>
    /\ parsed.scenes[1].content = <<W2>>

\* the trimmed non-blank lines of the text that begin with a scene marker, with
\* or without colon, in their order
HeaderLines(text) ==
    LET lines == SelectSeqNonBlank(SplitOn(text, NL))
    IN  SelectSeq([i \in 1..Len(lines) |-> Trim(lines[i])],
                  LAMBDA l : Head(l) \in {MARK, LMARK})

\* the remainder of a header line once the marker is stripped, or Scene <n>
TitleOfHeader(line, n) ==
    LET rest == TrimStart(Tail(line))
    IN  IF StrLen(rest) > 0 THEN rest ELSE <<"Scene " \o ToString(n)>>

\* C23: in a Story the line scan of the fallback strategy produced, the scene
\* opened by the n-th header line (a line that begins with SCENE <digits> or
\* Scene <digits>, with or without a colon) has as title the remainder of that
\* line with the marker stripped, or Scene <n> when nothing remains
C23_LineScanTitles ==
    (/\ parsePc = "returned"
     /\ parsed.fallbackParsed
     /\ Len(LineScanScenes(rawText, characterDNA)) > 0) =>
        \A k \in 1..Len(parsed.scenes) :
            LET n == parsed.scenes[k].number
            IN  /\ n \in 1..Len(HeaderLines(rawText))
                /\ parsed.scenes[k].title = TitleOfHeader(HeaderLines(rawText)[n], n)

\* the trimmed non-blank lines of the text
ScanLines(text) ==
    LET lines == SelectSeqNonBlank(SplitOn(text, NL))
    IN  [i \in 1..Len(lines) |-> Trim(lines[i])]

\* the positions of the header lines
HeaderPositions(L) ==
    SelectSeq([i \in 1..Len(L) |-> i], LAMBDA i : Head(L[i]) \in {MARK, LMARK})

\* the lines between the header at position h and the next header or the end
\* of the input, joined by spaces in their order
LinesUnder(L, h) ==
    LET later == {j \in (h + 1)..Len(L) : Head(L[j]) \in {MARK, LMARK}}
        stop  == IF later = {} THEN Len(L) + 1
                 ELSE CHOOSE j \in later : \A k \in later : j <= k
    IN  JoinWith([k \in 1..(stop - h - 1) |-> L[h + k]], <<SP>>)

\* one entry per header that has content, in the order of the headers
ScannedScenes(text) ==
    LET L  == ScanLines(text)
        hp == HeaderPositions(L)
    IN  SelectSeq([n \in 1..Len(hp) |-> [number |-> n, content |-> LinesUnder(L, hp[n])]],
                  LAMBDA e : Len(Trim(e.content)) > 0)

\* C24: when the line scan finds scenes, the Story holds, for the first 4
\* headers that have content and in their order, one scene each whose content
\* is the non-header lines between that header and the next header or the end
\* of input, joined by spaces in order; a header without content gives no
\* scene, and lines before the first header are in no scene
C24_LineScanAccumulation ==
    (parsePc = "returned" /\ parsed.fallbackParsed) =>
        LET expected == ScannedScenes(rawText)
        IN  Len(expected) > 0 =>
              /\ Len(parsed.scenes) = Min(Len(expected), 4)
              /\ \A k \in 1..Len(parsed.scenes) :
                    /\ parsed.scenes[k].number = expected[k].number
                    /\ parsed.scenes[k].content = expected[k].content

\* a header without title followed by two lines of content
C24_Witness ==
    /\ parsePc = "returned"
    /\ rawText = <<MARK, NL, W1, MARK, NL, W2>>
    /\ parsed.fallbackParsed
    /\ Len(parsed.scenes) = 1
    /\ parsed.scenes[1].content = <<W1, MARK, SP, W2>>

\* the text is handed to the fallback strategy: it passes the length guard and
\* no segment of the primary split contributes a scene
ReachesFallback(text) ==
    /\ StrLen(text) >= MinStoryLength
    /\ Len(Contributing(SplitOn(text, MARK))) = 0

\* C25: every Story the fallback strategy returns has fallbackParsed = true,
\* holds the first min(count, 4) of the scenes the line scan or the chunk split
\* produced, in their order, and has totalScenes = min(count, 4)
C25_FallbackShape ==
    (parsePc = "returned" /\ ReachesFallback(rawText)) =>
        LET found == FallbackScenes(rawText, characterDNA)
            kept  == Min(Len(found), 4)
        IN  /\ parsed.fallbackParsed = TRUE
            /\ parsed.totalScenes = kept
            /\ Len(parsed.scenes) = kept
            /\ \A k \in 1..kept :
                  /\ parsed.scenes[k].id = found[k].id
                  /\ parsed.scenes[k].number = found[k].number
                  /\ parsed.scenes[k].title = found[k].title
                  /\ parsed.scenes[k].content = found[k].content

\* five headers with content: the Story keeps scenes 1..4
C25_Witness ==
    /\ parsePc = "returned"
    /\ ReachesFallback(rawText)
    /\ Len(FallbackScenes(rawText, characterDNA)) = 5
    /\ parsed.totalScenes = 4
    /\ parsed.scenes[1].number = 1
    /\ parsed.scenes[4].number = 4

\* the number of sentences in each scene's content
SentenceCounts(scenes) == [k \in 1..Len(scenes) |-> Len(SentencesOf(scenes[k].content))]

\* C26: when the fallback strategy finds no scene by its line scan, the
\* sentences of the text are spread evenly over 4 chunks and each non-empty
\* chunk is one scene titled Scene <n>: a text of at least 4 sentences gives 4
\* scenes whose sentence counts differ by at most one, a text of fewer
\* sentences gives one scene per sentence
C26_ChunkSplitEven ==
    (/\ parsePc = "returned"
     /\ ReachesFallback(rawText)
     /\ Len(ScannedScenes(rawText)) = 0) =>
        LET n      == Len(SentencesOf(rawText))
            counts == SentenceCounts(parsed.scenes)
        IN  /\ Len(parsed.scenes) = Min(n, 4)
            /\ \A k \in 1..Len(parsed.scenes) :
                  parsed.scenes[k].title = <<"Scene " \o ToString(k)>>
            /\ \A j, k \in 1..Len(counts) :
                  counts[j] - counts[k] <= 1

\* every scene carries a description equal to its content and the name of the
\* character profile
CompleteScenes(story, dna) ==
    \A k \in 1..Len(story.scenes) :
        /\ story.scenes[k].description = story.scenes[k].content
        /\ story.scenes[k].characterName = dna.name

\* C27: every scene of every Story that parse returns, and of every Story in a
\* result of generateStory, has a description equal to its content and a
\* characterName equal to the name of the character profile
C27_SceneFields ==
    /\ parsePc = "returned" => CompleteScenes(parsed, characterDNA)
    /\ (pc = "returned" /\ result.kind = "return") => CompleteScenes(result.story, characterDNA)

(***************************************************************************)
(* Properties of buildStoryPrompt.                                         *)
(***************************************************************************)
\* the first position of piece x in p at or after position from
PositionFrom(p, x, from) ==
    CHOOSE i \in from..Len(p) : p[i] = x /\ \A j \in from..(i - 1) : p[j] # x

\* the value the line with the given caption names, and the guidance after it
NamedOn(p, caption) ==
    LET i == PositionFrom(p, caption, 1)
        j == PositionFrom(p, " - ", i)
    IN  SubSeq(p, i + 1, j - 1)

GuidanceOn(p, caption) ==
    LET i == PositionFrom(p, caption, 1)
        j == PositionFrom(p, " - ", i)
    IN  <<p[j + 1]>>

Recognized(table, v) == \E i \in 1..Len(table) : table[i].key = v

EntryOf(table, v) == table[CHOOSE i \in 1..Len(table) : table[i].key = v].text

\* a tone or length that is left out, null or empty
Missing(v) == v = UNDEFINED \/ v = JsNull \/ v = <<>>

GuidanceFor(table, v, default, generic, given) ==
    LET used == IF Missing(v) THEN default ELSE v
    IN  IF Recognized(table, used) THEN given = EntryOf(table, used)
        ELSE used \notin InheritedNames => given = generic

IssuedCalls == {a \in Attempts : call[a].st # "none"}

\* C29: a step of checkAvailability leaves the state of generateStory alone
\* (attempt counter, model calls, timers, delay, result) and a step of
\* generateStory leaves the probe's alone; the probe issues its one model call
\* when it starts and never again, arms no delay, and once it has returned
\* its report stays; generateStory has issued as many model calls as its
\* attempt counter says, whatever the probe did
C29_ProbeIsolated ==
    [][ /\ probeVars' # probeVars => UNCHANGED genVars
        /\ genVars' # genVars => UNCHANGED probeVars
        /\ probeCall'.st = "pending" => (probeCall.st = "pending" \/ probePc = "idle")
        /\ probeCall.st # "none" => probeCall'.st # "none"
        /\ probePc \in {"returned", "thrown"} => UNCHANGED <<probePc, report>>
        /\ pc' \in {"race", "delay", "thrown"} => IssuedCalls' = 1..attempt'
        /\ (pc' = "returned" /\ result'.kind = "return") =>
              /\ IssuedCalls' = 1..attempt'
              /\ result'.metadata.attempt = attempt'
              /\ result'.rawText = call'[attempt'].text ]_vars

\* the probe started while attempt 1 was outstanding and failed; generateStory
\* retried and returned on attempt 2
C29_Witness ==
    /\ probePc = "returned"
    /\ report.available = FALSE
    /\ pc = "returned"
    /\ result.kind = "return"
    /\ result.metadata.attempt = 2
    /\ timer[1] = "armed"
    /\ probeTimer = "armed"

(***************************************************************************)
(* Properties of the parsing guard.                                        *)
(***************************************************************************)
\* C30: in every state in which the callback of the 10-second parsing guard
\* can run, parsingComplete is already true; the callback never throws, and
\* the step in which it runs changes nothing of generateStory but the timer
\* itself: the attempt, the calls, the delay and the result stay as they were
C30_GuardInert ==
    [][ /\ guardTimer = "armed" => parsingComplete
        /\ ~uncaught'
        /\ (guardTimer = "armed" /\ guardTimer' = "fired") =>
              UNCHANGED <<pc, attempt, call, timer, race, delayTimer, delays,
                          parsingComplete, result>> ]_vars

\* the guard's callback ran after generateStory returned its result
C30_Witness ==
    /\ guardTimer = "fired"
    /\ pc = "returned"
    /\ result.kind = "return"
    /\ parsingComplete
    /\ ~uncaught

(***************************************************************************)
(* Properties of the model calls of one generateStory invocation.          *)
(***************************************************************************)
\* the calls whose race was decided by the attempt's timer and that have not
\* completed yet
LateCalls == {a \in Attempts : call[a].st = "pending" /\ race[a] = "timeout"}

\* C31: the rawText and the story of a returned GenerationResult are those of
\* the model call issued in the attempt named by metadata.attempt, which is
\* the attempt the loop is in; the step in which the call of a timed-out
\* attempt completes, with a response or an error, changes nothing but that
\* call: it supplies no result, ends no attempt and starts none; a returned
\* result is never replaced
C31_ResultProvenance ==
    [][ /\ result'.kind = "return" =>
              /\ result'.metadata.attempt = attempt'
              /\ call'[attempt'].st = "resolved"
              /\ race'[attempt'] = "model"
              /\ result'.rawText = call'[attempt'].text
              /\ result' # result =>
                    result' = GenerationResult(call'[attempt'].text, characterDNA', attempt')
        /\ result.kind = "return" => result' = result
        /\ \A a \in LateCalls :
              call'[a].st # "pending" =>
                  UNCHANGED <<pc, attempt, timer, race, delayTimer, delays,
                              guardTimer, parsingComplete, result>> ]_vars

\* attempt 1 timed out, its call answered later with one text, and the result
\* returned on attempt 2 carries the other text, the one of the second call
C31_Witness ==
    /\ result.kind = "return"
    /\ result.metadata.attempt = 2
    /\ race[1] = "timeout"
    /\ call[1].st = "resolved"
    /\ call[1].text = PlainText
    /\ call[2].text = WellFormedText
    /\ result.rawText = WellFormedText

\* the model calls that have been issued and have not completed
Outstanding == {a \in Attempts : call[a].st = "pending"}

\* the attempts whose requestTimeout timer was armed at some time
TimersArmed == {a \in Attempts : timer[a] # "none"}

\* C32: nothing cancels a model call: an outstanding call stays outstanding
\* until it completes by itself, in particular the call of a timed-out
\* attempt is still outstanding when the next attempt issues its own; the
\* outstanding calls are among those of the attempts made so far, so they
\* number at most the attempts made and never more than maxRetries, and one
\* timer is armed per attempt made, never more than maxRetries in all
C32_UncancelledLosers ==
    [][ /\ \A a \in Outstanding :
              \/ call'[a].st = "pending"
              \/ /\ call'[a].st \in {"resolved", "rejected"}
                 /\ attempt' = attempt
                 /\ \A b \in Attempts \ {a} : call'[b] = call[b]
        /\ \A a \in LateCalls : attempt' # attempt => a \in Outstanding'
        /\ attempt' \in 0..maxRetries
        /\ Outstanding' \subseteq 1..attempt'
        /\ Cardinality(Outstanding') <= attempt'
        /\ Cardinality(Outstanding') <= maxRetries
        /\ TimersArmed' = 1..attempt'
        /\ Cardinality(TimersArmed') <= maxRetries
        /\ \A a \in TimersArmed : timer'[a] # "none" ]_vars

\* three attempts were made, the first two timed out, and all three model
\* calls are outstanding at once
C32_Witness ==
    /\ attempt = maxRetries
    /\ Outstanding = Attempts
    /\ Cardinality(Outstanding) = 3
    /\ race[1] = "timeout"
    /\ race[2] = "timeout"
    /\ timer = [a \in Attempts |-> IF a = 3 THEN "armed" ELSE "fired"]

(***************************************************************************)
(* Termination of generateStory.                                           *)
(***************************************************************************)
\* generateStory has returned a result or thrown
Settled ==
    \/ pc = "returned" /\ result.kind = "return"
    \/ pc = "thrown" /\ result.kind = "throw"

\* the attempts that ended by their timer
TimedOut == {a \in Attempts : race[a] = "timeout"}

MarkerAt(text) == {i \in 1..Len(text) : text[i] \in {MARK, MARK3}}

\* the position of the j-th marker; 0 for j = 0, past the end after the last
NthMarker(text, j) ==
    IF j = 0 THEN 0
    ELSE IF j > Cardinality(MarkerAt(text)) THEN Len(text) + 1
    ELSE CHOOSE p \in MarkerAt(text) : Cardinality({q \in MarkerAt(text) : q <= p}) = j

\* the text between the j-th marker and the next one; j = 0 is the text before
\* the first marker
SegmentAfter(text, j) == SubSeq(text, NthMarker(text, j) + 1, NthMarker(text, j + 1) - 1)

\* the markers, by their rank, whose segment contributes a scene
ContributingRanks(text) ==
    {j \in 0..Cardinality(MarkerAt(text)) : Contributes(SegmentAfter(text, j))}

\* the rank of the marker of the k-th contributing segment
RankOf(text, k) ==
    CHOOSE j \in ContributingRanks(text) :
        Cardinality({h \in ContributingRanks(text) : h <= j}) = k

\* the digits written in the j-th marker
WrittenDigits(text, j) == IF text[NthMarker(text, j)] = MARK3 THEN 3 ELSE 1

\* the text with every marker rewritten as `SCENE 1:`
RECURSIVE AllOnes(_)
AllOnes(text) ==
    IF text = <<>> THEN <<>>
    ELSE <<IF Head(text) = MARK3 THEN MARK ELSE Head(text)>> \o AllOnes(Tail(text))

\* C34: in a Story of the primary strategy the scene at position k has number
\* k and id scene_k; for k up to the number of contributing segments it is the
\* scene of the k-th contributing segment in input order, whatever digits its
\* marker carries, and the padded scenes continue with the next numbers; the
\* whole Story is the one parsed from the same text with all markers written
\* `SCENE 1:`
C34_PositionalNumbering ==
    (parsePc = "returned" /\ ~parsed.fallbackParsed /\ ~parsed.emergencyFallback) =>
        LET n == Cardinality(ContributingRanks(rawText))
        IN  /\ n > 0
            /\ Len(parsed.scenes) = 4
            /\ \A k \in 1..4 :
                  /\ parsed.scenes[k].number = k
                  /\ parsed.scenes[k].id = "scene_" \o ToString(k)
                  /\ IF k <= n
                     THEN /\ parsed.scenes[k].title = SegTitle(SegmentAfter(rawText, RankOf(rawText, k)))
                          /\ parsed.scenes[k].content = SegContent(SegmentAfter(rawText, RankOf(rawText, k)))
                     ELSE IsGenericScene(parsed.scenes[k], k, characterDNA)
            /\ parsed = parseStoryIntoScenes(AllOnes(rawText), characterDNA)

\* markers 3, 3, 1, 1: the first has no content and contributes nothing, the
\* next three give the scenes 1, 2 and 3 in input order, and the padded scene
\* is number 4
C34_Witness ==
    /\ parsePc = "returned"
    /\ rawText = <<MARK3, NL, MARK3, SP, W1, NL, W2, NL, MARK, SP, W2, NL, W1, NL,
                   MARK, SP, W2, NL, W1, NL>>
    /\ ~parsed.fallbackParsed
    /\ WrittenDigits(rawText, RankOf(rawText, 1)) = 3
    /\ WrittenDigits(rawText, RankOf(rawText, 2)) = 1
    /\ WrittenDigits(rawText, RankOf(rawText, 3)) = 1
    /\ parsed.scenes[1].number = 1 /\ parsed.scenes[1].title = <<W1>>
    /\ parsed.scenes[2].number = 2 /\ parsed.scenes[2].title = <<W2>>
    /\ parsed.scenes[3].number = 3 /\ parsed.scenes[3].id = "scene_3"
    /\ parsed.scenes[4].number = 4 /\ IsGenericScene(parsed.scenes[4], 4, characterDNA)

====
